---- MODULE Spec2Model ----
(***************************************************************************)
(* Model of the ECS runtime in crates/ecs: the entity registry, the        *)
(* type-keyed component store with its swap-remove columns, the deferred   *)
(* mutation queues and the tick loop of the scheduler.                     *)
(*                                                                         *)
(* Entity ids and slot indices are 0-based as in the source; TLA+          *)
(* sequences are 1-based, so slot i of a Vec v is v[i + 1].                *)
(***************************************************************************)
EXTENDS Integers, Sequences, FiniteSets, TLC

\* Largest number of bits the entity bitset grows to.
MaxEntities == 2
\* Largest number of requests the two deferred queues hold together in a tick.
MaxQueued == 2
\* Width in bits of the modelled usize of the lock counter.
UsizeBits == 3
\* Largest number of guards of one lock a thread keeps at a time.
MaxGuards == 3

\* Component types (TypeId values) and their values: Health(f32) carries a
\* number, Immortal is a unit struct with a single value (test.rs).
Types == {"Health", "Immortal"}
Values == {0, 1}
ValuesOf(type_id) == IF type_id = "Immortal" THEN {0} ELSE Values

\* Registered systems of the dispatch model, each with one Query parameter:
\* sys_a(Query<&mut Health>), sys_b(Query<&Health>) and
\* sys_c(Query<(&Immortal, &mut Health)>).
Systems == {"sys_a", "sys_b", "sys_c"}

EntityIds == 0 .. (MaxEntities - 1)

\* The owners of the Query values made with Query::new and the systems that
\* declare a Res / ResMut parameter, each holding at most one at a time, and
\* the content of the slot of an owner that holds none.
QueryIds == {"query_a", "query_b"}
HandleIds == {"res_system_a", "res_system_b"}
NoQuery == [status |-> "none"]
NoHandle == [status |-> "none"]
ThreadIds == {"thread_a", "thread_b"}
NoCall == [pc |-> "idle"]

VARIABLES
    indices,        \* Entities.indices: the BitVec, a sequence of BOOLEAN
    components,     \* Components.map: TypeId -> TypedStorage (partial function)
    despawn_queue,  \* Scheduler.despawn_queue: set of entity ids
    remove_queue,   \* Scheduler.remove_queue: set of <<TypeId, entity id>>
    phase,          \* position of Schedule::run: idle, systems, tick_removal,
                    \* tick_despawn, or panicked (a panic unwound out of run)
    task,           \* per system: position of its spawned task in this tick
    applied,        \* history: ids whose despawn the current post-tick applied
    stale,          \* history: columns that were empty when the tick started
    events,         \* Events.storage: event TypeId -> EventBus (partial function)
    last_read,      \* per registered reader system: EventState.last_read
    log,            \* history: id -> the event written under it and the readers
                    \* that were registered at that moment
    delivered,      \* history: per reader, the <<id, event>> pairs its reads
                    \* returned, in order
    resources,      \* Resources.map: resource TypeId -> ResourceSingleton
    state,          \* per system with a State<S>: the value in its StateHolder
    ticks,          \* history: how many times Schedule::run has been called
    pc,             \* per system of the test schedule: position of its task
    iter_index,     \* EntityIter.iter_index of detection's query iterator
    locked,         \* ResMut.locked of execution's counter handle
    queries,        \* per slot: the Query value held in it, or the failure of
                    \* the last Query::new made for it
    handles,        \* per slot: the Res / ResMut a running system holds in it,
                    \* or the failure that ended the system
    freed,          \* history: ids whose bit was cleared when the tick started
    lock_counter,   \* PersistentLock.counter of a lock used on its own
    threads         \* per thread calling into the world: the call it is in,
                    \* its position and locals, and the result of its last call

world_vars == <<indices, components, despawn_queue, remove_queue, phase, task,
                applied, stale>>
event_vars == <<events, last_read, log, delivered>>
test_vars == <<resources, state, ticks, pc, iter_index, locked>>
handle_vars == <<queries, handles>>
thread_vars == <<lock_counter, threads>>
non_world_vars == <<event_vars, test_vars, handle_vars, freed, thread_vars>>
vars == <<world_vars, non_world_vars>>

----------------------------------------------------------------------------
(* Vec and map helpers *)

\* Vec::swap_remove(i) for i < len: the last element takes slot i.
swap_remove(v, i) ==
    [k \in 1 .. (Len(v) - 1) |-> IF k = i + 1 THEN v[Len(v)] ELSE v[k]]

\* DashMap::remove / DashMap::insert on a map held as a partial function.
MapRemove(m, k) == [x \in DOMAIN m \ {k} |-> m[x]]
MapInsert(m, k, v) == [x \in DOMAIN m \cup {k} |-> IF x = k THEN v ELSE m[x]]

----------------------------------------------------------------------------
(* PersistentLock (util.rs) *)

USIZE_MAX == 2 ^ UsizeBits - 1

\* read() succeeds unless the counter is usize::MAX; write() only on 0.
read_ok(counter) == counter # USIZE_MAX
write_ok(counter) == counter = 0

\* The counter after a successful read()/write() and after the releases.
lock_read(counter) == (counter + 1) % (2 ^ UsizeBits)
force_release_read(counter) == (counter - 1) % (2 ^ UsizeBits)
lock_write(counter) == USIZE_MAX
force_release_write(counter) == 0

\* read(): Err(StorageLocked) when the counter is usize::MAX, else the
\* counter is incremented and a guard returned.
PersistentLock_read(counter) ==
    IF read_ok(counter) THEN [counter |-> lock_read(counter), out |-> "Ok"]
    ELSE [counter |-> counter, out |-> "StorageLocked"]

\* write() that only refuses a counter of usize::MAX, as read() does.
PersistentLock_write_shared(counter) ==
    IF read_ok(counter) THEN [counter |-> lock_write(counter), out |-> "Ok"]
    ELSE [counter |-> counter, out |-> "StorageLocked"]

\* write(): Err(StorageLocked) unless the counter is 0, else the counter
\* becomes usize::MAX and a guard is returned.
PersistentLock_write(counter) ==
    IF write_ok(counter) THEN [counter |-> lock_write(counter), out |-> "Ok"]
    ELSE [counter |-> counter, out |-> "StorageLocked"]

\* Drop for LockGuard<K>
LockGuard_drop(counter, kind) ==
    IF kind = "read" THEN force_release_read(counter)
    ELSE force_release_write(counter)

----------------------------------------------------------------------------
(* Entities (entity.rs) *)

\* The ids of set bits.
Live(bits) == {i \in 0 .. (Len(bits) - 1) : bits[i + 1]}

\* alloc() that never searches for a cleared bit and always pushes.
alloc_id_push(bits) == Len(bits)

\* alloc(): the lowest cleared bit, or the length when no bit is cleared.
alloc_id(bits) ==
    LET gaps == {i \in 0 .. (Len(bits) - 1) : ~bits[i + 1]}
    IN  IF gaps # {} THEN CHOOSE g \in gaps : \A h \in gaps : g <= h
        ELSE Len(bits)

alloc_bits(bits) ==
    LET id == alloc_id(bits)
    IN  IF id < Len(bits) THEN [bits EXCEPT ![id + 1] = TRUE]
        ELSE Append(bits, TRUE)

\* free_many(iter) that flips the bit of every id of the iterator.
free_many_flip(bits, ids) ==
    [k \in 1 .. Len(bits) |-> IF (k - 1) \in ids THEN ~bits[k] ELSE bits[k]]

\* free_many(iter): clears the bit of every id of the iterator.
free_many(bits, ids) ==
    [k \in 1 .. Len(bits) |-> IF (k - 1) \in ids THEN FALSE ELSE bits[k]]

----------------------------------------------------------------------------
(* TypedStorage (component.rs) *)

\* TypedStorage::with(entity, component)
TypedStorage_with(entity, component) ==
    [map |-> MapInsert(<<>>, entity, 0),
     reverse_map |-> <<entity>>,
     lock |-> 0,
     storage |-> <<component>>]

\* TypedStorage::insert that registers a new entity in map and reverse_map
\* before it tries the lock.
TypedStorage_insert_unguarded(st, entity, component) ==
    IF entity \in DOMAIN st.map THEN
        LET index == st.map[entity]
        IN  IF ~write_ok(st.lock) THEN [st |-> st, out |-> "Err"]
            ELSE IF index >= Len(st.storage) THEN [st |-> st, out |-> "panic"]
            ELSE [st |-> [st EXCEPT !.storage[index + 1] = component],
                  out |-> "Ok(Some)"]
    ELSE
        LET st1 == [st EXCEPT !.map = MapInsert(@, entity, Len(st.storage)),
                              !.reverse_map = Append(@, entity)]
        IN  IF ~write_ok(st.lock) THEN [st |-> st1, out |-> "Err"]
            ELSE [st |-> [st1 EXCEPT !.storage = Append(@, component)],
                  out |-> "Ok(None)"]

\* TypedStorage::insert. out: "Ok(Some)", "Ok(None)", "Err" (StorageLocked)
\* or "panic" (index out of bounds in the replace branch).
TypedStorage_insert(st, entity, component) ==
    IF entity \in DOMAIN st.map THEN
        LET index == st.map[entity]
        IN  IF ~write_ok(st.lock) THEN [st |-> st, out |-> "Err"]
            ELSE IF index >= Len(st.storage) THEN [st |-> st, out |-> "panic"]
            ELSE [st |-> [st EXCEPT !.storage[index + 1] = component],
                  out |-> "Ok(Some)"]
    ELSE
        IF ~write_ok(st.lock) THEN [st |-> st, out |-> "Err"]
        ELSE [st |-> [st EXCEPT !.storage = Append(@, component),
                                !.map = MapInsert(@, entity, Len(st.storage)),
                                !.reverse_map = Append(@, entity)],
              out |-> "Ok(None)"]

\* TypedStorage::remove (the TypelessStorage impl). out: "Ok(true)",
\* "Ok(false)", "Err" (StorageLocked) or "panic" (index out of bounds).
\* The map entry is removed before the lock is tried; the write guard is
\* dropped at the end of its block, also when the block unwinds.
TypedStorage_remove(st, entity) ==
    IF entity \in DOMAIN st.map THEN
        LET index == st.map[entity]
            st1 == [st EXCEPT !.map = MapRemove(@, entity)]
        IN  IF ~write_ok(st.lock) THEN [st |-> st1, out |-> "Err"]
            ELSE IF index >= Len(st.storage) THEN [st |-> st1, out |-> "panic"]
            ELSE
                LET st2 == [st1 EXCEPT !.storage = swap_remove(@, index)]
                IN  IF Len(st2.storage) = 0
                    THEN [st |-> [st2 EXCEPT !.reverse_map = <<>>],
                          out |-> "Ok(false)"]
                    ELSE IF Len(st.reverse_map) = 0
                    THEN [st |-> st2, out |-> "panic"]
                    ELSE
                        LET modified_id == st.reverse_map[Len(st.reverse_map)]
                            st3 == [st2 EXCEPT
                                        !.map = MapInsert(@, modified_id, index)]
                        IN  IF index >= Len(st.reverse_map)
                            THEN [st |-> st3, out |-> "panic"]
                            ELSE [st |-> [st3 EXCEPT !.reverse_map =
                                              swap_remove(@, index)],
                                  out |-> "Ok(true)"]
    ELSE
        IF ~read_ok(st.lock) THEN [st |-> st, out |-> "Err"]
        ELSE [st |-> st,
              out |-> IF Len(st.storage) = 0 THEN "Ok(true)" ELSE "Ok(false)"]

\* TypedStorage::has_entity
has_entity(st, entity) == entity \in DOMAIN st.map

----------------------------------------------------------------------------
(* Components (component.rs) *)

\* Components::insert<T>
Components_insert(comps, type_id, entity, component) ==
    IF type_id \in DOMAIN comps THEN
        LET r == TypedStorage_insert(comps[type_id], entity, component)
        IN  [map |-> [comps EXCEPT ![type_id] = r.st], out |-> r.out]
    ELSE
        [map |-> MapInsert(comps, type_id, TypedStorage_with(entity, component)),
         out |-> "Ok(None)"]

\* Components::has_component<T>
has_component(comps, type_id, entity) ==
    /\ type_id \in DOMAIN comps
    /\ has_entity(comps[type_id], entity)

\* Components::despawn with the retain closure not negated: a column is kept
\* iff its remove() returned Ok(true).
Components_despawn_not_negated(comps, entity) ==
    LET r == [t \in DOMAIN comps |-> TypedStorage_remove(comps[t], entity)]
        bad == {t \in DOMAIN comps : r[t].out \in {"Err", "panic"}}
    IN  IF bad = {}
        THEN {[map |-> [t \in {u \in DOMAIN comps : r[u].out = "Ok(true)"} |->
                           r[t].st],
               panicked |-> FALSE]}
        ELSE {[map |-> [t \in DOMAIN comps |-> r[t].st], panicked |-> TRUE]}

\* Components::despawn: retain over the store, keeping a column iff its
\* remove() returned Ok(false); expect() panics on Err. The outcomes are the
\* results of the orders in which retain may visit the columns: when a column
\* panics, the ones visited before it are done, the rest are untouched.
Components_despawn(comps, entity) ==
    LET r == [t \in DOMAIN comps |-> TypedStorage_remove(comps[t], entity)]
        bad == {t \in DOMAIN comps : r[t].out \in {"Err", "panic"}}
        kept(S) == {t \in S : r[t].out = "Ok(false)"}
    IN  IF bad = {}
        THEN {[map |-> [t \in kept(DOMAIN comps) |-> r[t].st],
               panicked |-> FALSE]}
        ELSE UNION {
               {[map |-> [t \in (DOMAIN comps \ V) \cup kept(V) \cup {b} |->
                             IF t \in V THEN r[t].st ELSE comps[t]],
                 panicked |-> TRUE]
                  : V \in {W \in SUBSET DOMAIN comps : W \cap bad = {b}}}
               : b \in bad}

\* What a query or Entity::has observes of an entity: the component types it
\* owns, and the value Query fetch reads for an owned type (storage[map[id]]).
Owned(comps, entity) == {t \in DOMAIN comps : has_entity(comps[t], entity)}

fetch(comps, type_id, entity) ==
    IF ~has_component(comps, type_id, entity) THEN [out |-> "None", val |-> 0]
    ELSE LET st == comps[type_id]
         IN  IF st.map[entity] < Len(st.storage)
             THEN [out |-> "Some", val |-> st.storage[st.map[entity] + 1]]
             ELSE [out |-> "panic", val |-> 0]

----------------------------------------------------------------------------
(* World::spawn (world.rs) with the SpawnBundle impls (component.rs) *)

\* Bundles: (), C0 and (C0, C1), as the sequence of their component types.
Bundles ==
    {<<>>} \cup {<<t>> : t \in Types}
           \cup {b \in Types \X Types : b[1] # b[2]}

BundleValues(bundle) ==
    {vals \in [1 .. Len(bundle) -> Values] :
        \A i \in 1 .. Len(bundle) : vals[i] \in ValuesOf(bundle[i])}

\* insert_into: the inserts in order; `?` stops at the first Err.
RECURSIVE insert_into(_, _, _, _)
insert_into(comps, entity, bundle, vals) ==
    IF bundle = <<>> THEN [map |-> comps, out |-> "Ok"]
    ELSE LET r == Components_insert(comps, Head(bundle), entity, Head(vals))
         IN  IF r.out \in {"Err", "panic"} THEN [map |-> r.map, out |-> r.out]
             ELSE insert_into(r.map, entity, Tail(bundle), Tail(vals))

\* World::spawn: alloc, then insert_into whose Result is dropped.
spawn(bundle, vals) ==
    /\ phase = "idle"
    /\ alloc_id(indices) < MaxEntities
    /\ LET entity == alloc_id(indices)
           r == insert_into(components, entity, bundle, vals)
       IN  /\ indices' = alloc_bits(indices)
           /\ components' = r.map
           /\ phase' = IF r.out = "panic" THEN "panicked" ELSE phase
    /\ UNCHANGED <<despawn_queue, remove_queue, task, applied, stale>>

----------------------------------------------------------------------------
(* Entity handle (entity.rs) and the deferred queues (scheduler.rs) *)

Queued == Cardinality(despawn_queue) + Cardinality(remove_queue)

\* Scheduler::schedule_despawn / schedule_remove_component
schedule_despawn(queue, entity) == queue \cup {entity}
schedule_remove_component(queue, entity, type_id) ==
    queue \cup {<<type_id, entity>>}

\* Entity::despawn, called by a system during the tick on a handle it holds
\* (any id that was ever allocated: handles are Clone and travel in events).
Entity_despawn_eager(entity) ==
    /\ phase = "systems"
    /\ entity < Len(indices)
    /\ entity \notin despawn_queue
    /\ Queued < MaxQueued
    /\ despawn_queue' = schedule_despawn(despawn_queue, entity)
    /\ indices' = free_many(indices, {entity})
    /\ UNCHANGED <<components, remove_queue, phase, task, applied, stale>>

Entity_despawn(entity) ==
    /\ phase = "systems"
    /\ entity < Len(indices)
    /\ entity \notin despawn_queue
    /\ Queued < MaxQueued
    /\ despawn_queue' = schedule_despawn(despawn_queue, entity)
    /\ UNCHANGED <<indices, components, remove_queue, phase, task, applied,
                   stale>>

\* Entity::remove<T>
Entity_remove(type_id, entity) ==
    /\ phase = "systems"
    /\ entity < Len(indices)
    /\ <<type_id, entity>> \notin remove_queue
    /\ Queued < MaxQueued
    /\ remove_queue' = schedule_remove_component(remove_queue, entity, type_id)
    /\ UNCHANGED <<indices, components, despawn_queue, phase, task, applied,
                   stale>>

----------------------------------------------------------------------------
(* Schedule::run and Scheduler::post_tick (scheduler.rs) *)

\* post_tick: the passes in the order it calls them.
post_tick_swapped == <<"tick_despawn", "tick_removal">>
post_tick == <<"tick_removal", "tick_despawn">>

\* The bitset on entering a pass: tick_despawn starts with free_many over
\* the whole despawn queue.
EnterPass(pass) ==
    indices' = IF pass = "tick_despawn"
               THEN free_many(indices, despawn_queue) ELSE indices

\* Schedule::run up to the dispatch: pre_tick is a no-op, the systems start.
run_begin ==
    /\ phase = "idle"
    /\ phase' = "systems"
    /\ stale' = {t \in DOMAIN components : Len(components[t].storage) = 0}
    /\ applied' = {}
    /\ UNCHANGED <<indices, components, despawn_queue, remove_queue, task>>

\* The join of the system futures has completed: post_tick starts.
post_tick_begin ==
    /\ phase = "systems"
    /\ phase' = post_tick[1]
    /\ EnterPass(post_tick[1])
    /\ UNCHANGED <<components, despawn_queue, remove_queue, task, applied,
                   stale>>

\* tick_removal: one (type, entity) entry of the retain over remove_queue.
\* The Result of remove() is dropped; a panic unwinds out of run.
tick_removal(type_id, entity) ==
    /\ phase = "tick_removal"
    /\ <<type_id, entity>> \in remove_queue
    /\ remove_queue' = remove_queue \ {<<type_id, entity>>}
    /\ IF type_id \in DOMAIN components
       THEN LET r == TypedStorage_remove(components[type_id], entity)
            IN  /\ components' = [components EXCEPT ![type_id] = r.st]
                /\ phase' = IF r.out = "panic" THEN "panicked" ELSE phase
       ELSE UNCHANGED <<components, phase>>
    /\ UNCHANGED <<indices, despawn_queue, task, applied, stale>>

\* tick_despawn: one entity of the retain over despawn_queue.
tick_despawn(entity) ==
    /\ phase = "tick_despawn"
    /\ entity \in despawn_queue
    /\ despawn_queue' = despawn_queue \ {entity}
    /\ \E o \in Components_despawn(components, entity) :
           /\ components' = o.map
           /\ phase' = IF o.panicked THEN "panicked" ELSE phase
    /\ applied' = applied \cup {entity}
    /\ UNCHANGED <<indices, remove_queue, task, stale>>

\* The pass has drained its queue: the next pass starts, or post_tick and
\* with it run() returns.
PassQueue(pass) ==
    IF pass = "tick_removal" THEN remove_queue ELSE despawn_queue

pass_done ==
    /\ phase \in {"tick_removal", "tick_despawn"}
    /\ PassQueue(phase) = {}
    /\ IF phase = post_tick[1]
       THEN /\ phase' = post_tick[2]
            /\ EnterPass(post_tick[2])
            /\ UNCHANGED <<applied, stale>>
       ELSE /\ phase' = "idle"
            /\ applied' = {}
            /\ stale' = {}
            /\ UNCHANGED indices
    /\ task' = IF phase = post_tick[1] THEN task
               ELSE [s \in Systems |-> "idle"]
    /\ UNCHANGED <<components, despawn_queue, remove_queue>>

----------------------------------------------------------------------------
(* The world driven tick by tick: spawns between ticks, deferred requests  *)
(* from the running systems, then post_tick.                               *)

Init ==
    /\ indices = <<>>
    /\ components = <<>>
    /\ despawn_queue = {}
    /\ remove_queue = {}
    /\ phase = "idle"
    /\ task = [s \in Systems |-> "idle"]
    /\ applied = {}
    /\ stale = {}
    /\ events = <<>>
    /\ last_read = <<>>
    /\ log = <<>>
    /\ delivered = <<>>
    /\ resources = <<>>
    /\ state = <<>>
    /\ ticks = 0
    /\ pc = <<>>
    /\ iter_index = 0
    /\ locked = FALSE
    /\ queries = [q \in QueryIds |-> NoQuery]
    /\ handles = [h \in HandleIds |-> NoHandle]
    /\ freed = {}
    /\ lock_counter = 0
    /\ threads = [th \in ThreadIds |-> NoCall]

Next ==
    \/ \E b \in Bundles : \E vals \in BundleValues(b) :
           spawn(b, vals) /\ UNCHANGED non_world_vars
    \/ run_begin /\ UNCHANGED non_world_vars
    \/ \E e \in EntityIds : Entity_despawn(e) /\ UNCHANGED non_world_vars
    \/ \E t \in Types, e \in EntityIds :
           Entity_remove(t, e) /\ UNCHANGED non_world_vars
    \/ post_tick_begin /\ UNCHANGED non_world_vars
    \/ \E t \in Types, e \in EntityIds :
           tick_removal(t, e) /\ UNCHANGED non_world_vars
    \/ \E e \in EntityIds : tick_despawn(e) /\ UNCHANGED non_world_vars
    \/ pass_done /\ UNCHANGED non_world_vars

Spec == Init /\ [][Next]_vars

----------------------------------------------------------------------------
(* Query locks (query.rs) *)

\* QueryParams::descriptor of the system's Query: the requests
\* <<type_id, exclusive>> in declaration order.
SystemQuery(s) ==
    CASE s = "sys_a" -> << <<"Health", TRUE>> >>
      [] s = "sys_b" -> << <<"Health", FALSE>> >>
      [] s = "sys_c" -> << <<"Immortal", FALSE>>, <<"Health", TRUE>> >>

\* get_locks of &T / &mut T: nothing to lock when the column does not exist.
get_lock(comps, req) ==
    IF req[1] \notin DOMAIN comps THEN [map |-> comps, out |-> "Ok"]
    ELSE LET counter == comps[req[1]].lock
         IN  IF req[2]
             THEN IF write_ok(counter)
                  THEN [map |-> [comps EXCEPT ![req[1]].lock = lock_write(@)],
                        out |-> "Ok"]
                  ELSE [map |-> comps, out |-> "Err"]
             ELSE IF read_ok(counter)
                  THEN [map |-> [comps EXCEPT ![req[1]].lock = lock_read(@)],
                        out |-> "Ok"]
                  ELSE [map |-> comps, out |-> "Err"]

\* release_locks of &T / &mut T: releases whenever the column exists.
release_lock(comps, req) ==
    IF req[1] \notin DOMAIN comps THEN comps
    ELSE IF req[2]
         THEN [comps EXCEPT ![req[1]].lock = force_release_write(@)]
         ELSE [comps EXCEPT ![req[1]].lock = force_release_read(@)]

\* release_locks of (Q1, Q2): Q1 first, then Q2.
RECURSIVE release_locks(_, _)
release_locks(comps, reqs) ==
    IF reqs = <<>> THEN comps
    ELSE release_locks(release_lock(comps, Head(reqs)), Tail(reqs))

\* A get_locks of (Q1, Q2) that returns the error of Q2 and keeps Q1 locked.
RECURSIVE get_locks_keep(_, _)
get_locks_keep(comps, reqs) ==
    IF reqs = <<>> THEN [map |-> comps, out |-> "Ok"]
    ELSE LET r1 == get_lock(comps, Head(reqs))
         IN  IF r1.out = "Err" THEN r1
             ELSE get_locks_keep(r1.map, Tail(reqs))

\* get_locks of (Q1, Q2): Q1, then Q2; when Q2 fails Q1 is released.
RECURSIVE get_locks(_, _)
get_locks(comps, reqs) ==
    IF reqs = <<>> THEN [map |-> comps, out |-> "Ok"]
    ELSE LET r1 == get_lock(comps, Head(reqs))
         IN  IF r1.out = "Err" THEN r1
             ELSE LET r2 == get_locks(r1.map, Tail(reqs))
                  IN  IF r2.out = "Err"
                      THEN [map |-> release_lock(r2.map, Head(reqs)),
                            out |-> "Err"]
                      ELSE r2

----------------------------------------------------------------------------
(* Schedule::run with its system tasks (scheduler.rs, system.rs) *)

\* run: pre_tick, then one tokio task per registered system.
run_dispatch ==
    /\ phase = "idle"
    /\ phase' = "systems"
    /\ task' = [s \in Systems |-> "spawned"]
    /\ stale' = {t \in DOMAIN components : Len(components[t].storage) = 0}
    /\ applied' = {}
    /\ UNCHANGED <<indices, components, despawn_queue, remove_queue>>

\* The task starts: System::call fetches the parameter. Query::new takes the
\* locks; expect() panics the task when that fails.
task_call(s) ==
    /\ phase = "systems"
    /\ task[s] = "spawned"
    /\ LET r == get_locks(components, SystemQuery(s))
       IN  /\ components' = r.map
           /\ task' = [task EXCEPT ![s] = IF r.out = "Ok" THEN "running"
                                          ELSE "panicked"]
    /\ UNCHANGED <<indices, despawn_queue, remove_queue, phase, applied, stale>>

\* The running system calls Entity::despawn / Entity::remove<T>.
task_despawn(s, entity) ==
    /\ task[s] = "running"
    /\ Entity_despawn(entity)

task_remove(s, type_id, entity) ==
    /\ task[s] = "running"
    /\ Entity_remove(type_id, entity)

\* The future of an asynchronous system yields at an await; its parameters,
\* and with them the locks of its Query, live on inside the future.
is_async(s) == s = "sys_b"

task_suspend(s) ==
    /\ phase = "systems"
    /\ is_async(s)
    /\ task[s] = "running"
    /\ task' = [task EXCEPT ![s] = "suspended"]
    /\ UNCHANGED <<indices, components, despawn_queue, remove_queue, phase,
                   applied, stale>>

\* The runtime polls the future again.
task_resume(s) ==
    /\ phase = "systems"
    /\ task[s] = "suspended"
    /\ task' = [task EXCEPT ![s] = "running"]
    /\ UNCHANGED <<indices, components, despawn_queue, remove_queue, phase,
                   applied, stale>>

\* The body returns (or its future completes): the Query is dropped.
task_return(s) ==
    /\ phase = "systems"
    /\ task[s] = "running"
    /\ components' = release_locks(components, SystemQuery(s))
    /\ task' = [task EXCEPT ![s] = "done"]
    /\ UNCHANGED <<indices, despawn_queue, remove_queue, phase, applied, stale>>

\* The join loop of run: `while let Some(_) = futures.next().await {}` ends
\* when every JoinHandle has resolved, Ok for a task that returned and Err for
\* one that panicked; the results are dropped.
Joined(s) == task[s] \in {"done", "panicked"}

\* The loop written with `if let`: it would wait for the first handle only.
run_join_first ==
    /\ phase = "systems"
    /\ \E s \in Systems : Joined(s)
    /\ phase' = post_tick[1]
    /\ EnterPass(post_tick[1])
    /\ UNCHANGED <<components, despawn_queue, remove_queue, task, applied,
                   stale>>

\* Every spawned task has ended, by return or by panic: post_tick starts.
run_join ==
    /\ phase = "systems"
    /\ \A s \in Systems : Joined(s)
    /\ phase' = post_tick[1]
    /\ EnterPass(post_tick[1])
    /\ UNCHANGED <<components, despawn_queue, remove_queue, task, applied,
                   stale>>

NextRun ==
    \/ \E b \in Bundles : \E vals \in BundleValues(b) :
           spawn(b, vals) /\ UNCHANGED non_world_vars
    \/ run_dispatch /\ UNCHANGED non_world_vars
    \/ \E s \in Systems : task_call(s) /\ UNCHANGED non_world_vars
    \/ \E s \in Systems, e \in EntityIds :
           task_despawn(s, e) /\ UNCHANGED non_world_vars
    \/ \E s \in Systems, t \in Types, e \in EntityIds :
           task_remove(s, t, e) /\ UNCHANGED non_world_vars
    \/ \E s \in Systems : task_suspend(s) /\ UNCHANGED non_world_vars
    \/ \E s \in Systems : task_resume(s) /\ UNCHANGED non_world_vars
    \/ \E s \in Systems : task_return(s) /\ UNCHANGED non_world_vars
    \/ run_join /\ UNCHANGED non_world_vars
    \/ \E t \in Types, e \in EntityIds :
           tick_removal(t, e) /\ UNCHANGED non_world_vars
    \/ \E e \in EntityIds : tick_despawn(e) /\ UNCHANGED non_world_vars
    \/ pass_done /\ UNCHANGED non_world_vars

SpecRun == Init /\ [][NextRun]_vars

\* Schedule::run on a world populated beforehand: every entity spawned with
\* the same bundle of at most one component, then ticks only.
RECURSIVE spawn_many(_, _, _, _)
spawn_many(bits, comps, bundle, n) ==
    IF n = 0 THEN [bits |-> bits, map |-> comps]
    ELSE spawn_many(alloc_bits(bits),
                    insert_into(comps, alloc_id(bits), bundle,
                                [i \in 1 .. Len(bundle) |-> 0]).map,
                    bundle, n - 1)

InitPopulated ==
    /\ \E b \in {x \in Bundles : Len(x) <= 1} :
           LET w == spawn_many(<<>>, <<>>, b, MaxEntities)
           IN  indices = w.bits /\ components = w.map
    /\ despawn_queue = {}
    /\ remove_queue = {}
    /\ phase = "idle"
    /\ task = [s \in Systems |-> "idle"]
    /\ applied = {}
    /\ stale = {}
    /\ events = <<>>
    /\ last_read = <<>>
    /\ log = <<>>
    /\ delivered = <<>>
    /\ resources = <<>>
    /\ state = <<>>
    /\ ticks = 0
    /\ pc = <<>>
    /\ iter_index = 0
    /\ locked = FALSE
    /\ queries = [q \in QueryIds |-> NoQuery]
    /\ handles = [h \in HandleIds |-> NoHandle]
    /\ freed = {}
    /\ lock_counter = 0
    /\ threads = [th \in ThreadIds |-> NoCall]

NextDispatch ==
    \/ run_dispatch /\ UNCHANGED non_world_vars
    \/ \E s \in Systems : task_call(s) /\ UNCHANGED non_world_vars
    \/ \E s \in Systems, e \in EntityIds :
           task_despawn(s, e) /\ UNCHANGED non_world_vars
    \/ \E s \in Systems, t \in Types, e \in EntityIds :
           task_remove(s, t, e) /\ UNCHANGED non_world_vars
    \/ \E s \in Systems : task_suspend(s) /\ UNCHANGED non_world_vars
    \/ \E s \in Systems : task_resume(s) /\ UNCHANGED non_world_vars
    \/ \E s \in Systems : task_return(s) /\ UNCHANGED non_world_vars
    \/ run_join /\ UNCHANGED non_world_vars
    \/ \E t \in Types, e \in EntityIds :
           tick_removal(t, e) /\ UNCHANGED non_world_vars
    \/ \E e \in EntityIds : tick_despawn(e) /\ UNCHANGED non_world_vars
    \/ pass_done /\ UNCHANGED non_world_vars

SpecDispatch == InitPopulated /\ [][NextDispatch]_vars

----------------------------------------------------------------------------
(* The event bus (event.rs) *)

\* Bound on the ids a bus hands out.
MaxEvents == 3

EventTypes == {"Killed"}
\* The payloads written: Killed { entity }.
EventValues == {0, 1}
\* The systems that declare an EventReader<Killed>.
Readers == {"reader_a", "reader_b"}

\* AtomicUsize::fetch_add / fetch_sub: wrapping.
fetch_add(n) == (n + 1) % (2 ^ UsizeBits)
fetch_sub(n) == (n - 1) % (2 ^ UsizeBits)

\* EventBus::insert: the slot is stored whatever the reader count is.
EventBus_insert(bus, event) ==
    [bus |-> [bus EXCEPT !.next_id = fetch_add(@),
                         !.events = MapInsert(@, bus.next_id,
                                       [rem |-> bus.readers, event |-> event])],
     id  |-> bus.next_id]

\* Events::insert: a missing bus is created with next_id 1 and the event is
\* dropped under the id 0.
Events_insert(storage, E, event) ==
    IF E \in DOMAIN storage
    THEN LET r == EventBus_insert(storage[E], event)
         IN  [storage |-> [storage EXCEPT ![E] = r.bus], id |-> r.id]
    ELSE [storage |-> MapInsert(storage, E,
                         [readers |-> 0, next_id |-> 1, events |-> <<>>]),
          id |-> 0]

\* Events::get
Events_get(storage, E, id) ==
    IF E \notin DOMAIN storage \/ id \notin DOMAIN storage[E].events
    THEN [storage |-> storage, out |-> "None", event |-> 0]
    ELSE LET slot == storage[E].events[id]
             rem == slot.rem
         IN  [storage |->
                 [storage EXCEPT ![E].events =
                     IF rem = 1 THEN MapRemove(@, id)
                     ELSE [@ EXCEPT ![id].rem = fetch_sub(rem)]],
              out |-> "Some", event |-> slot.event]

\* Events::add_reader
Events_add_reader(storage, E) ==
    IF E \in DOMAIN storage
    THEN [storage EXCEPT ![E].readers = fetch_add(@)]
    ELSE MapInsert(storage, E, [readers |-> 1, next_id |-> 0, events |-> <<>>])

\* Events::next_id, with the unwrap_or(0) of its callers.
Events_next_id(storage, E) ==
    IF E \in DOMAIN storage THEN storage[E].next_id ELSE 0

\* A reader state whose cursor starts at the first id of the bus.
EventReader_state_from_start(storage, E) == 0

\* SystemParam::state of EventReader: the cursor starts at the bus's next_id.
EventReader_state(storage, E) == Events_next_id(storage, E)

\* An iterator that advances the cursor whether or not it found an event.
EventIterator_next_always_advance(storage, E, cursor) ==
    LET r == Events_get(storage, E, cursor)
    IN  [storage |-> r.storage, out |-> r.out, event |-> r.event,
         last_read |-> fetch_add(cursor)]

\* EventIterator::next
EventIterator_next(storage, E, cursor) ==
    LET r == Events_get(storage, E, cursor)
    IN  [storage |-> r.storage, out |-> r.out, event |-> r.event,
         last_read |-> IF r.out = "Some" THEN fetch_add(cursor) ELSE cursor]

\* The readers registered on E's bus.
Registered == DOMAIN last_read

\* Schedule::add_system of a system with an EventReader<E>: into_container
\* creates the state, then init registers the reader.
add_reader_system(r, E) ==
    /\ r \notin Registered
    /\ last_read' = MapInsert(last_read, r, EventReader_state(events, E))
    /\ events' = Events_add_reader(events, E)
    /\ delivered' = MapInsert(delivered, r, <<>>)
    /\ UNCHANGED log

\* EventWriter::write, called by a running system.
EventWriter_write(E, event) ==
    /\ Events_next_id(events, E) < MaxEvents
    /\ LET r == Events_insert(events, E, event)
       IN  /\ events' = r.storage
           /\ log' = MapInsert(log, r.id,
                               [event |-> event, readers |-> Registered])
    /\ UNCHANGED <<last_read, delivered>>

\* One step of the loop `for event in reader.read()` of a reader system.
EventReader_read(r, E) ==
    /\ r \in Registered
    /\ LET n == EventIterator_next(events, E, last_read[r])
       IN  /\ events' = n.storage
           /\ last_read' = [last_read EXCEPT ![r] = n.last_read]
           /\ delivered' =
                 IF n.out = "Some"
                 THEN [delivered EXCEPT
                          ![r] = Append(@, <<last_read[r], n.event>>)]
                 ELSE delivered
    /\ UNCHANGED log

NextEvents ==
    \/ (\E r \in Readers, E \in EventTypes : add_reader_system(r, E))
          /\ UNCHANGED <<world_vars, test_vars, handle_vars, freed, thread_vars>>
    \/ (\E E \in EventTypes, ev \in EventValues : EventWriter_write(E, ev))
          /\ UNCHANGED <<world_vars, test_vars, handle_vars, freed, thread_vars>>
    \/ (\E r \in Readers, E \in EventTypes : EventReader_read(r, E))
          /\ UNCHANGED <<world_vars, test_vars, handle_vars, freed, thread_vars>>

SpecEvents == Init /\ [][NextEvents]_vars

----------------------------------------------------------------------------
(* Resources (resource.rs) and State (state.rs) *)

\* Resources::insert
Resources_insert(res, R, resource) ==
    MapInsert(res, R, [lock |-> 0, resource |-> resource])

\* Resources::read that creates the resource it does not find.
Resources_read_or_insert(res, R) ==
    IF R \notin DOMAIN res
    THEN [map |-> MapInsert(res, R, [lock |-> lock_read(0), resource |-> 0]),
          out |-> "Ok"]
    ELSE IF read_ok(res[R].lock)
         THEN [map |-> [res EXCEPT ![R].lock = lock_read(@)], out |-> "Ok"]
         ELSE [map |-> res, out |-> "StorageLocked"]

\* Resources::read: the guard is forgotten, the lock stays taken.
Resources_read(res, R) ==
    IF R \notin DOMAIN res THEN [map |-> res, out |-> "NotFound"]
    ELSE IF read_ok(res[R].lock)
         THEN [map |-> [res EXCEPT ![R].lock = lock_read(@)], out |-> "Ok"]
         ELSE [map |-> res, out |-> "StorageLocked"]

\* Resources::force_release_read
Resources_force_release_read(res, R) ==
    IF R \notin DOMAIN res THEN res
    ELSE [res EXCEPT ![R].lock = force_release_read(@)]

\* Resources::write
Resources_write(res, R) ==
    IF R \notin DOMAIN res THEN [map |-> res, out |-> "NotFound"]
    ELSE IF write_ok(res[R].lock)
         THEN [map |-> [res EXCEPT ![R].lock = lock_write(@)], out |-> "Ok"]
         ELSE [map |-> res, out |-> "StorageLocked"]

\* Resources::force_release_write
Resources_force_release_write(res, R) ==
    IF R \notin DOMAIN res THEN res
    ELSE [res EXCEPT ![R].lock = force_release_write(@)]

\* ResMut::deref_mut: the first dereference takes the write lock; unwrap
\* panics when that fails.
ResMut_deref_mut(res, R, is_locked) ==
    IF is_locked THEN [map |-> res, locked |-> TRUE, out |-> "Ok"]
    ELSE LET r == Resources_write(res, R)
         IN  IF r.out = "Ok" THEN [map |-> r.map, locked |-> TRUE, out |-> "Ok"]
             ELSE [map |-> res, locked |-> FALSE, out |-> "panic"]

\* Drop for ResMut
ResMut_drop(res, R, is_locked) ==
    IF is_locked THEN Resources_force_release_write(res, R) ELSE res

\* Res::deref: the first dereference takes the read lock; unwrap panics
\* with the error of read() when that fails.
Res_deref(res, R, is_locked) ==
    IF is_locked THEN [map |-> res, locked |-> TRUE, out |-> "Ok"]
    ELSE LET r == Resources_read(res, R)
         IN  IF r.out = "Ok" THEN [map |-> r.map, locked |-> TRUE, out |-> "Ok"]
             ELSE [map |-> res, locked |-> FALSE, out |-> "panic"]

\* Drop for Res
Res_drop(res, R, is_locked) ==
    IF is_locked THEN Resources_force_release_read(res, R) ELSE res

\* SystemParam::state of State<S>: S::default(), created by into_container.
State_state == 0

\* A fetch that hands the system a newly default-constructed value.
State_fetch_default(holder) == State_state

\* SystemParam::fetch of State<S>: a clone of the Arc, the same cell.
State_fetch(holder) == holder

----------------------------------------------------------------------------
(* Query iteration (entity.rs, query.rs) *)

\* BitVec::iter_ones().nth(n); -1 stands for None.
nth_one(bits, n) ==
    IF n < Cardinality(Live(bits))
    THEN CHOOSE i \in Live(bits) : Cardinality({j \in Live(bits) : j < i}) = n
    ELSE -1

\* EntityIter::next for a query that requests the types `with` and filters
\* Without<T> for the types `without`.
RECURSIVE EntityIter_next(_, _, _, _, _)
EntityIter_next(bits, comps, with, without, index) ==
    LET next_id == nth_one(bits, index)
    IN  IF next_id = -1
        THEN [out |-> "None", entity |-> 0, iter_index |-> index]
        ELSE IF /\ \A t \in with : has_component(comps, t, next_id)
                /\ \A t \in without : ~has_component(comps, t, next_id)
             THEN [out |-> "Some", entity |-> next_id, iter_index |-> index + 1]
             ELSE EntityIter_next(bits, comps, with, without, index + 1)

\* QueryIter::next: the next entity of the EntityIter, then Q::fetch of every
\* requested type; an entity that passed the filter has every map entry, so a
\* fetch either returns the component or panics on the slot index.
QueryIter_next(bits, comps, with, without, index) ==
    LET n == EntityIter_next(bits, comps, with, without, index)
        outs == {fetch(comps, t, n.entity).out : t \in with}
    IN  IF n.out = "None"
        THEN [out |-> "None", entity |-> 0, iter_index |-> n.iter_index]
        ELSE [out |-> IF "panic" \in outs THEN "panic"
                      ELSE IF "None" \in outs THEN "None" ELSE "Some",
              entity |-> n.entity,
              iter_index |-> n.iter_index]

\* `for item in &query`: next() until it returns None; the ids of the
\* entities whose items the loop body received.
RECURSIVE Query_iterate(_, _, _, _, _, _)
Query_iterate(bits, comps, with, without, index, items) ==
    LET n == QueryIter_next(bits, comps, with, without, index)
    IN  IF n.out = "Some"
        THEN Query_iterate(bits, comps, with, without, n.iter_index,
                           Append(items, n.entity))
        ELSE [out |-> n.out, items |-> items]

----------------------------------------------------------------------------
(* Query values made with Query::new and dropped by their owner (query.rs) *)

\* The Query types constructed: Query<&Health>, Query<&mut Health>,
\* Query<(&Immortal, &mut Health)>, Query<(&Health, &Immortal)> and
\* Query<(&Immortal, &Health)>, as their requests in declaration order.
QueryTypes ==
    { << <<"Health", FALSE>> >>,
      << <<"Health", TRUE>> >>,
      << <<"Immortal", FALSE>>, <<"Health", TRUE>> >>,
      << <<"Health", FALSE>>, <<"Immortal", FALSE>> >>,
      << <<"Immortal", FALSE>>, <<"Health", FALSE>> >> }

\* History of a get_locks call: the requests whose lock it took, in the order
\* of the calls, up to the first one that failed.
RECURSIVE locks_taken(_, _)
locks_taken(comps, reqs) ==
    IF reqs = <<>> THEN <<>>
    ELSE LET r1 == get_lock(comps, Head(reqs))
         IN  IF r1.out = "Err" THEN <<>>
             ELSE (IF Head(reqs)[1] \in DOMAIN comps THEN <<Head(reqs)>>
                   ELSE <<>>) \o locks_taken(r1.map, Tail(reqs))

\* Query::new: get_locks, then the Query value or the error.
Query_new(q, reqs) ==
    /\ phase = "idle"
    /\ queries[q].status # "held"
    /\ LET r == get_locks(components, reqs)
       IN  /\ components' = r.map
           /\ queries' = [queries EXCEPT ![q] =
                  [status |-> IF r.out = "Ok" THEN "held" ELSE "StorageLocked",
                   reqs |-> reqs,
                   acquired |-> locks_taken(components, reqs)]]
    /\ UNCHANGED <<indices, despawn_queue, remove_queue, phase, task, applied,
                   stale, event_vars, test_vars, handles, freed, thread_vars>>

\* Drop for Query: release_locks, whatever the construction took.
Query_drop(q) ==
    /\ phase = "idle"
    /\ queries[q].status = "held"
    /\ components' = release_locks(components, queries[q].reqs)
    /\ queries' = [queries EXCEPT ![q] = NoQuery]
    /\ UNCHANGED <<indices, despawn_queue, remove_queue, phase, task, applied,
                   stale, event_vars, test_vars, handles, freed, thread_vars>>

NextQuery ==
    \/ \E b \in Bundles : \E vals \in BundleValues(b) :
           spawn(b, vals) /\ UNCHANGED non_world_vars
    \/ \E q \in QueryIds, reqs \in QueryTypes : Query_new(q, reqs)
    \/ \E q \in QueryIds : Query_drop(q)

SpecQuery == Init /\ [][NextQuery]_vars

----------------------------------------------------------------------------
(* The schedule of the test (test.rs): detection, execution and two       *)
(* registrations of state_system over the four entities it spawns.        *)

\* Bound on the calls of Schedule::run.
MaxTicks == 2

TestSystems == {"detection", "execution", "state_system", "state_system_b"}
StateSystems == {"state_system", "state_system_b"}
TestEntityIds == 0 .. 3

\* Health(0.0), Health(1.0), Health(0.0), (Health(0.0), Immortal)
TestSpawns ==
    << [bundle |-> <<"Health">>, vals |-> <<0>>],
       [bundle |-> <<"Health">>, vals |-> <<1>>],
       [bundle |-> <<"Health">>, vals |-> <<0>>],
       [bundle |-> <<"Health", "Immortal">>, vals |-> <<0, 0>>] >>

RECURSIVE spawn_each(_, _, _)
spawn_each(bits, comps, spawns) ==
    IF spawns = <<>> THEN [bits |-> bits, map |-> comps]
    ELSE spawn_each(alloc_bits(bits),
                    insert_into(comps, alloc_id(bits), Head(spawns).bundle,
                                Head(spawns).vals).map,
                    Tail(spawns))

\* The world when the first run starts: the spawns, add_resource, and the
\* add_system calls (execution's reader state, then its registration).
InitTest ==
    /\ LET w == spawn_each(<<>>, <<>>, TestSpawns)
       IN  indices = w.bits /\ components = w.map
    /\ despawn_queue = {}
    /\ remove_queue = {}
    /\ phase = "idle"
    /\ task = [s \in Systems |-> "idle"]
    /\ applied = {}
    /\ stale = {}
    /\ last_read = MapInsert(<<>>, "execution", EventReader_state(<<>>, "Killed"))
    /\ events = Events_add_reader(<<>>, "Killed")
    /\ log = <<>>
    /\ delivered = MapInsert(<<>>, "execution", <<>>)
    /\ resources = Resources_insert(<<>>, "KillCounter", 0)
    /\ state = [s \in StateSystems |-> State_state]
    /\ ticks = 0
    /\ pc = [s \in TestSystems |-> "idle"]
    /\ iter_index = 0
    /\ locked = FALSE
    /\ queries = [q \in QueryIds |-> NoQuery]
    /\ handles = [h \in HandleIds |-> NoHandle]
    /\ freed = {}
    /\ lock_counter = 0
    /\ threads = [th \in ThreadIds |-> NoCall]

\* run: one task per system of the schedule.
test_dispatch ==
    /\ ticks < MaxTicks
    /\ run_begin
    /\ ticks' = ticks + 1
    /\ pc' = [s \in TestSystems |-> "spawned"]
    /\ UNCHANGED <<event_vars, resources, state, iter_index, locked>>

\* detection(query: Query<(Entity, &Health), Without<Immortal>>, writer)
detection_query == << <<"Health", FALSE>> >>

\* The task of detection starts: Query::new takes the lock, or panics.
detection_call ==
    /\ phase = "systems"
    /\ pc["detection"] = "spawned"
    /\ LET r == get_locks(components, detection_query)
       IN  /\ components' = r.map
           /\ pc' = [pc EXCEPT !["detection"] =
                        IF r.out = "Ok" THEN "running" ELSE "panicked"]
    /\ iter_index' = 0
    /\ UNCHANGED <<indices, despawn_queue, remove_queue, phase, task, applied,
                   stale, event_vars, resources, state, ticks, locked>>

\* One turn of `for (entity, health) in &query`: QueryIter::next, then the
\* body; when the iterator ends the system returns and drops its Query.
detection_next ==
    /\ phase = "systems"
    /\ pc["detection"] = "running"
    /\ LET n == EntityIter_next(indices, components, {"Health"}, {"Immortal"},
                                iter_index)
           f == fetch(components, "Health", n.entity)
       IN  IF n.out = "Some" /\ f.out = "Some"
           THEN /\ iter_index' = n.iter_index
                /\ IF f.val <= 0
                   THEN LET w == Events_insert(events, "Killed", n.entity)
                        IN  /\ events' = w.storage
                            /\ log' = MapInsert(log, w.id,
                                         [event |-> n.entity,
                                          readers |-> Registered])
                   ELSE UNCHANGED <<events, log>>
                /\ UNCHANGED <<components, pc>>
           ELSE /\ components' = release_locks(components, detection_query)
                /\ pc' = [pc EXCEPT !["detection"] =
                             IF n.out = "Some" /\ f.out = "panic"
                             THEN "panicked" ELSE "done"]
                /\ UNCHANGED <<iter_index, events, log>>
    /\ UNCHANGED <<indices, despawn_queue, remove_queue, phase, task, applied,
                   stale, last_read, delivered, resources, state, ticks,
                   locked>>

\* The task of execution starts: EventReader::new and an unlocked ResMut.
execution_call ==
    /\ phase = "systems"
    /\ pc["execution"] = "spawned"
    /\ pc' = [pc EXCEPT !["execution"] = "running"]
    /\ locked' = FALSE
    /\ UNCHANGED <<world_vars, event_vars, resources, state, ticks, iter_index>>

\* One turn of `for event in reader.read()`: EventIterator::next, then the
\* body (counter.0 += 1; event.entity.despawn()); when the iterator ends the
\* system returns and drops its ResMut.
execution_next ==
    /\ phase = "systems"
    /\ pc["execution"] = "running"
    /\ LET n == EventIterator_next(events, "Killed", last_read["execution"])
           d == ResMut_deref_mut(resources, "KillCounter", locked)
       IN  IF n.out = "Some"
           THEN /\ events' = n.storage
                /\ last_read' = [last_read EXCEPT !["execution"] = n.last_read]
                /\ delivered' = [delivered EXCEPT !["execution"] =
                                    Append(@, <<last_read["execution"], n.event>>)]
                /\ IF d.out = "Ok"
                   THEN /\ resources' = [d.map EXCEPT
                                            !["KillCounter"].resource = @ + 1]
                        /\ locked' = TRUE
                        /\ despawn_queue' =
                               schedule_despawn(despawn_queue, n.event)
                        /\ UNCHANGED pc
                   ELSE /\ pc' = [pc EXCEPT !["execution"] = "panicked"]
                        /\ UNCHANGED <<resources, locked, despawn_queue>>
           ELSE /\ resources' = ResMut_drop(resources, "KillCounter", locked)
                /\ locked' = FALSE
                /\ pc' = [pc EXCEPT !["execution"] = "done"]
                /\ UNCHANGED <<events, last_read, delivered, despawn_queue>>
    /\ UNCHANGED <<indices, components, remove_queue, phase, task, applied,
                   stale, log, state, ticks, iter_index>>

\* state_system(mut state: State<SystemState>): state.counter += 1
state_system_call(s) ==
    /\ phase = "systems"
    /\ pc[s] = "spawned"
    /\ state' = [state EXCEPT ![s] = fetch_add(State_fetch(state[s]))]
    /\ pc' = [pc EXCEPT ![s] = "done"]
    /\ UNCHANGED <<world_vars, event_vars, resources, ticks, iter_index, locked>>

\* The join loop has seen every task end: post_tick starts.
test_join ==
    /\ \A s \in TestSystems : pc[s] \in {"done", "panicked"}
    /\ post_tick_begin
    /\ UNCHANGED non_world_vars

NextTest ==
    \/ test_dispatch /\ UNCHANGED <<handle_vars, freed, thread_vars>>
    \/ detection_call /\ UNCHANGED <<handle_vars, freed, thread_vars>>
    \/ detection_next /\ UNCHANGED <<handle_vars, freed, thread_vars>>
    \/ execution_call /\ UNCHANGED <<handle_vars, freed, thread_vars>>
    \/ execution_next /\ UNCHANGED <<handle_vars, freed, thread_vars>>
    \/ \E s \in StateSystems : state_system_call(s) /\ UNCHANGED <<handle_vars, freed, thread_vars>>
    \/ test_join
    \/ \E e \in TestEntityIds : tick_despawn(e) /\ UNCHANGED non_world_vars
    \/ pass_done /\ UNCHANGED non_world_vars

SpecTest == InitTest /\ [][NextTest]_vars

----------------------------------------------------------------------------
(* Properties of the component store and the deferred queues *)

AtBoundary == phase = "idle"
Returning == phase # "idle" /\ phase' = "idle"

\* C1: for every column, at every tick boundary, the number of stored values,
\* the length of the slot->id reverse vector and the number of id->slot map
\* entries are equal.
C1_ColumnLengthsAgree ==
    AtBoundary =>
        \A t \in DOMAIN components :
            /\ Len(components[t].storage) = Len(components[t].reverse_map)
            /\ Len(components[t].reverse_map) =
                   Cardinality(DOMAIN components[t].map)

\* C2: for every column and every (id, slot) of its map, slot is a valid index
\* of the reverse vector and reverse[slot] = id, after any sequence of inserts
\* and removals.
C2_MapReverseConsistent ==
    phase # "panicked" =>
        \A t \in DOMAIN components :
            \A id \in DOMAIN components[t].map :
                /\ components[t].map[id] < Len(components[t].reverse_map)
                /\ components[t].reverse_map[components[t].map[id] + 1] = id

\* C3: once the removal of component T from an entity that owned it has been
\* applied, has<T>(id) is false, whatever slot the entity occupied.
C3_RemovedNotOwned ==
    [][\A t \in Types, e \in EntityIds :
          ( /\ phase = "tick_removal"
            /\ <<t, e>> \in remove_queue
            /\ <<t, e>> \notin remove_queue'
            /\ has_component(components, t, e)
            /\ phase' # "panicked" )
          => ~has_component(components', t, e)]_vars

\* C4: when post-tick despawns e, e is removed from every column and its id is
\* freed, every other live entity owns the same component types with the same
\* values as before, and no column holding another entity's component leaves
\* the store.
C4_DespawnFrame ==
    [][\A e \in EntityIds :
          ( /\ phase = "tick_despawn"
            /\ e \in despawn_queue
            /\ e \notin despawn_queue'
            /\ phase' # "panicked" )
          => /\ e \notin Live(indices')
             /\ Owned(components', e) = {}
             /\ \A o \in Live(indices) \ {e} :
                   /\ Owned(components', o) = Owned(components, o)
                   /\ \A t \in Owned(components, o) :
                         fetch(components', t, o) = fetch(components, t, o)]_vars

\* C5: the column-level remove(entity) returns true iff the column is empty
\* after the call, whether or not the entity owned the component.
C5_RemoveReturnsEmptiness ==
    phase # "panicked" =>
        \A t \in DOMAIN components, e \in EntityIds :
            LET r == TypedStorage_remove(components[t], e)
            IN  r.out \in {"Ok(true)", "Ok(false)"} =>
                    ((r.out = "Ok(true)") <=> (Len(r.st.storage) = 0))

\* C6: an entity whose despawn this post-tick has applied is absent from the
\* live set and is mapped by no column of the store, from the moment the
\* despawn is applied until post-tick returns (the return changes neither the
\* bitset nor the store), whatever bundle it had and whatever slots it held.
C6_DespawnedGone ==
    phase = "tick_despawn" =>
        \A e \in applied :
            /\ e \notin Live(indices)
            /\ \A t \in DOMAIN components : ~has_entity(components[t], e)

\* C6 witness: post-tick is about to return after despawning an entity, and a
\* column survives in the store.
C6_Witness ==
    /\ phase = "tick_despawn"
    /\ despawn_queue = {}
    /\ applied # {}
    /\ DOMAIN components # {}

\* C7: while the systems run, Entity::despawn and Entity::remove<T> only
\* record the request: the live set and every column stay as they are, so the
\* entity is live and keeps its components until post-tick.
C7_RequestsAreDeferred ==
    [][(phase = "systems" /\ phase' = "systems")
          => (indices' = indices /\ components' = components)]_vars

\* C7 witness: during the tick a despawn and a component removal are queued
\* for entities that are still live and still own their components.
C7_Witness ==
    /\ phase = "systems"
    /\ \E e \in despawn_queue :
           e \in Live(indices) /\ Owned(components, e) # {}
    /\ \E q \in remove_queue :
           q[2] \in Live(indices) /\ has_component(components, q[1], q[2])

\* C8: in post-tick every queued component removal is applied before any
\* queued despawn (the freeing of the ids included), and when post-tick
\* returns both queues are empty.
C8_RemovalsThenDespawns ==
    [][/\ (phase \notin {"idle", "systems"} /\
              (despawn_queue' # despawn_queue \/ indices' # indices))
          => remove_queue = {}
       /\ Returning => (remove_queue' = {} /\ despawn_queue' = {})]_vars

\* C8 witness: the removal pass has emptied a column that held a component
\* when the tick started, the removal queue is drained, and the queued
\* despawns are still to be applied.
C8_Witness ==
    /\ phase = "tick_despawn"
    /\ remove_queue = {}
    /\ despawn_queue # {}
    /\ applied = {}
    /\ \E t \in DOMAIN components \ stale : Len(components[t].storage) = 0

\* C9: a column whose last entity has been removed is absent from the store
\* at the latest when the next tick's post-tick has finished, whatever the
\* next tick's queues hold.
C9_EmptyColumnPruned ==
    [][Returning => (stale \cap DOMAIN components' = {})]_vars

----------------------------------------------------------------------------
(* Properties of the dispatch *)

\* Two descriptors conflict iff they mention a common type and at least one
\* of the two accesses is exclusive.
Access(s) == {SystemQuery(s)[i] : i \in 1 .. Len(SystemQuery(s))}
Conflict(s1, s2) ==
    \E a \in Access(s1), b \in Access(s2) : a[1] = b[1] /\ (a[2] \/ b[2])

\* C10: during Schedule::run no two systems whose access sets conflict are
\* running at the same time.
C10_NoConflictingSystemsRun ==
    \A s1 \in Systems, s2 \in Systems :
        (s1 # s2 /\ task[s1] = "running" /\ task[s2] = "running")
            => ~Conflict(s1, s2)

\* Both systems request exclusive access (Query<&mut T>) to a common type.
BothExclusive(s1, s2) ==
    \E a \in Access(s1), b \in Access(s2) : a[1] = b[1] /\ a[2] /\ b[2]

\* C11: when two systems both request Query<&mut T> for the same T, the one
\* whose task starts while the other is running its body is not aborted
\* because the column lock is held: its task does not end in a panic.
C11_ExclusiveSystemsSerialize ==
    [][\A s1 \in Systems, s2 \in Systems :
          (/\ s1 # s2
           /\ BothExclusive(s1, s2)
           /\ task[s1] = "running"
           /\ task[s2] = "spawned")
              => task'[s2] # "panicked"]_vars

PostTick == phase \in {"tick_removal", "tick_despawn"}

C13_SystemPanicContained ==
    phase = "panicked" => \A s \in Systems : task[s] # "panicked"

----------------------------------------------------------------------------
(* Properties of the event bus *)

Bus == events["Killed"]
HasBus == "Killed" \in DOMAIN events
DeliveredIds(r) == {delivered[r][i][1] : i \in 1 .. Len(delivered[r])}
\* How many reads have returned the event written under id.
Deliveries(id) == Cardinality({r \in Registered : id \in DeliveredIds(r)})

\* C14: a reader is delivered an event at most once, only events written
\* while it was registered (with the payload written), and every event
\* written while it was registered is either delivered to it already or still
\* waits in the bus at or after its cursor, with no gap before it.
C14_DeliveredToSubscribers ==
    \A r \in Registered :
        /\ \A i, j \in 1 .. Len(delivered[r]) :
               i # j => delivered[r][i][1] # delivered[r][j][1]
        /\ \A i \in 1 .. Len(delivered[r]) :
               LET id == delivered[r][i][1]
               IN  /\ id \in DOMAIN log
                   /\ r \in log[id].readers
                   /\ delivered[r][i][2] = log[id].event
        /\ \A id \in DOMAIN log :
               r \in log[id].readers =>
                   \/ id \in DeliveredIds(r)
                   \/ /\ id >= last_read[r]
                      /\ \A k \in last_read[r] .. id : k \in DOMAIN Bus.events

\* C14 witness: reader_b registered after an event was written; both
\* readers have been delivered the later event, reader_a also the earlier.
C14_Witness ==
    /\ Registered = Readers
    /\ Len(delivered["reader_a"]) = 2
    /\ Len(delivered["reader_b"]) = 1
    /\ \E id \in DOMAIN log : log[id].readers = {"reader_a"}

\* C15: a stored slot's remaining_readers is the reader count at its write
\* minus the deliveries made of it, and a slot is stored exactly while fewer
\* deliveries than that count have been made.
C15_RemainingReaders ==
    HasBus =>
        /\ \A id \in DOMAIN Bus.events :
               /\ id \in DOMAIN log
               /\ Bus.events[id].rem =
                      Cardinality(log[id].readers) - Deliveries(id)
               /\ Deliveries(id) < Cardinality(log[id].readers)
        /\ \A id \in DOMAIN log :
               Deliveries(id) < Cardinality(log[id].readers)
                   => id \in DOMAIN Bus.events

\* C16: a read moves the reader's cursor by one exactly when it returns an
\* event, the event returned is the one at the cursor, and the cursor never
\* moves back; so the ids a reader is delivered ascend one by one.
C16_CursorAdvancesByOne ==
    [][\A r \in Registered :
          /\ last_read'[r] >= last_read[r]
          /\ last_read'[r] - last_read[r]
                 = Len(delivered'[r]) - Len(delivered[r])
          /\ Len(delivered'[r]) - Len(delivered[r]) \in {0, 1}
          /\ Len(delivered'[r]) > Len(delivered[r])
                 => delivered'[r][Len(delivered'[r])][1] = last_read[r]]_vars

\* C16 witness: a reader has been delivered two events and stands at the
\* tail of the bus, where a further read misses.
C16_Witness ==
    \E r \in Registered :
        /\ Len(delivered[r]) = 2
        /\ delivered[r][1][1] < delivered[r][2][1]
        /\ last_read[r] = Bus.next_id

\* C17: no slot is stored for an event written while no reader was
\* registered.
C17_NoSlotWithoutSubscribers ==
    HasBus => \A id \in DOMAIN Bus.events :
                  id \in DOMAIN log => log[id].readers # {}

\* C18: when there are readers and each has consumed every event written so
\* far, the bus holds no slot.
C18_BusDrained ==
    (/\ HasBus
     /\ Registered # {}
     /\ \A r \in Registered : last_read[r] = Bus.next_id)
        => DOMAIN Bus.events = {}

----------------------------------------------------------------------------
(* Properties of the test schedule *)

KillCounter == resources["KillCounter"].resource

\* C19: when the first run of the schedule has returned, KillCounter is 2,
\* the ids 0 and 2 (Health 0, not Immortal) are freed and the id 3
\* (Health 0, Immortal) is live.
C19_KillScenario ==
    (ticks = 1 /\ phase = "idle") =>
        /\ KillCounter = 2
        /\ Live(indices) \cap {0, 2} = {}
        /\ 3 \in Live(indices)

\* C20: the counter in a system's State starts at its default, and after
\* the system's n-th run it reads n, for each of the two systems.
C20_StatePersists ==
    \A s \in StateSystems :
        /\ ticks = 0 => state[s] = 0
        /\ pc[s] = "spawned" => state[s] = ticks - 1
        /\ pc[s] = "done" => state[s] = ticks

\* C20 witness: the second run, in which one of the systems has run twice
\* and the other once.
C20_Witness ==
    /\ ticks = 2
    /\ pc["state_system"] = "done" /\ state["state_system"] = 2
    /\ pc["state_system_b"] = "spawned" /\ state["state_system_b"] = 1

----------------------------------------------------------------------------
(* Ticks over a world of entities spawned with any bundles: the deferred   *)
(* requests name any id ever handed out, live or already despawned.        *)

\* The ids handed out whose bit is cleared.
Dead(bits) == {i \in 0 .. (Len(bits) - 1) : ~bits[i + 1]}

\* The spawns before the first run: one bundle per entity.
Spawns ==
    [1 .. MaxEntities -> {[bundle |-> b, vals |-> [i \in 1 .. Len(b) |-> 0]]
                             : b \in Bundles}]

InitDespawn ==
    /\ \E spawns \in Spawns :
           LET w == spawn_each(<<>>, <<>>, spawns)
           IN  indices = w.bits /\ components = w.map
    /\ despawn_queue = {}
    /\ remove_queue = {}
    /\ phase = "idle"
    /\ task = [s \in Systems |-> "idle"]
    /\ applied = {}
    /\ stale = {}
    /\ events = <<>>
    /\ last_read = <<>>
    /\ log = <<>>
    /\ delivered = <<>>
    /\ resources = <<>>
    /\ state = <<>>
    /\ ticks = 0
    /\ pc = <<>>
    /\ iter_index = 0
    /\ locked = FALSE
    /\ queries = [q \in QueryIds |-> NoQuery]
    /\ handles = [h \in HandleIds |-> NoHandle]
    /\ freed = {}
    /\ lock_counter = 0
    /\ threads = [th \in ThreadIds |-> NoCall]

NextDespawn ==
    \/ /\ run_begin
       /\ freed' = Dead(indices)
       /\ UNCHANGED <<event_vars, test_vars, handle_vars, thread_vars>>
    \/ \E e \in EntityIds : Entity_despawn(e) /\ UNCHANGED non_world_vars
    \/ \E t \in Types, e \in EntityIds :
           Entity_remove(t, e) /\ UNCHANGED non_world_vars
    \/ post_tick_begin /\ UNCHANGED non_world_vars
    \/ \E t \in Types, e \in EntityIds :
           tick_removal(t, e) /\ UNCHANGED non_world_vars
    \/ \E e \in EntityIds : tick_despawn(e) /\ UNCHANGED non_world_vars
    \/ pass_done /\ UNCHANGED non_world_vars

SpecDespawn == InitDespawn /\ [][NextDespawn]_vars

----------------------------------------------------------------------------
(* Res and ResMut handles of running systems, with World::add_resource     *)
(* called by whoever holds the world (resource.rs, world.rs).              *)

ResourceTypes == {"KillCounter", "Settings"}
HandleKinds == {"Res", "ResMut"}

\* World::add_resource: Resources::insert, which replaces the singleton of
\* a type already present by a new one with a new lock.
World_add_resource(R, resource) ==
    /\ resources' = Resources_insert(resources, R, resource)
    /\ UNCHANGED <<world_vars, event_vars, state, ticks, pc, iter_index,
                   locked, handle_vars, freed, thread_vars>>

\* SystemParam::fetch of Res<R> / ResMut<R> when the system's task starts:
\* no lock is taken.
handle_fetch(h, kind, R) ==
    /\ handles[h].status # "held"
    /\ handles' = [handles EXCEPT ![h] =
           [status |-> "held", kind |-> kind, R |-> R, locked |-> FALSE]]
    /\ UNCHANGED <<world_vars, event_vars, test_vars, queries, freed,
                   thread_vars>>

\* The error unwrap() panics with in deref, or "Ok".
deref_error(kind, R) ==
    IF kind = "Res" THEN Resources_read(resources, R).out
    ELSE Resources_write(resources, R).out

\* Deref::deref of the handle (DerefMut::deref_mut of a ResMut does the
\* same).  A panic unwinds the system and drops the handle, whose locked
\* flag is still false; the slot keeps the error.
handle_deref(h) ==
    /\ handles[h].status = "held"
    /\ LET kind == handles[h].kind
           R == handles[h].R
           d == IF kind = "Res" THEN Res_deref(resources, R, handles[h].locked)
                ELSE ResMut_deref_mut(resources, R, handles[h].locked)
       IN  IF d.out = "Ok"
           THEN /\ resources' = d.map
                /\ handles' = [handles EXCEPT ![h].locked = d.locked]
           ELSE /\ resources' = IF kind = "Res"
                                THEN Res_drop(d.map, R, d.locked)
                                ELSE ResMut_drop(d.map, R, d.locked)
                /\ handles' = [handles EXCEPT ![h] =
                       [status |-> deref_error(kind, R), kind |-> kind,
                        R |-> R, locked |-> d.locked]]
    /\ UNCHANGED <<world_vars, event_vars, state, ticks, pc, iter_index,
                   locked, queries, freed, thread_vars>>

\* Drop for Res / ResMut when the system returns.
handle_drop(h) ==
    /\ handles[h].status = "held"
    /\ resources' = IF handles[h].kind = "Res"
                    THEN Res_drop(resources, handles[h].R, handles[h].locked)
                    ELSE ResMut_drop(resources, handles[h].R,
                                     handles[h].locked)
    /\ handles' = [handles EXCEPT ![h] = NoHandle]
    /\ UNCHANGED <<world_vars, event_vars, state, ticks, pc, iter_index,
                   locked, queries, freed, thread_vars>>

NextResources ==
    \/ \E R \in ResourceTypes, resource \in Values :
           World_add_resource(R, resource)
    \/ \E h \in HandleIds, kind \in HandleKinds, R \in ResourceTypes :
           handle_fetch(h, kind, R)
    \/ \E h \in HandleIds : handle_deref(h)
    \/ \E h \in HandleIds : handle_drop(h)

SpecResources == Init /\ [][NextResources]_vars

----------------------------------------------------------------------------
(* World::spawn by threads holding the world while Query values hold       *)
(* column locks: the Result of insert_into, which spawn drops, is kept as  *)
(* history.                                                                *)

\* World::spawn called by a thread; the record keeps the bundle and the
\* Result of insert_into.
spawn_call(th, bundle, vals) ==
    /\ spawn(bundle, vals)
    /\ threads' = [threads EXCEPT ![th] =
           [pc |-> "idle", call |-> "spawn", bundle |-> bundle,
            entity |-> alloc_id(indices),
            out |-> insert_into(components, alloc_id(indices), bundle,
                                vals).out]]
    /\ UNCHANGED <<event_vars, test_vars, handle_vars, freed, lock_counter>>

\* The thread of the host, which spawns between the ticks, and the other
\* holder: the owner of the one Query value made here.
Host == "thread_a"
Holder == "query_a"

NextInsert ==
    \/ \E b \in Bundles : \E vals \in BundleValues(b) :
           spawn_call(Host, b, vals)
    \/ \E reqs \in QueryTypes : Query_new(Holder, reqs)
    \/ Query_drop(Holder)

SpecInsert == Init /\ [][NextInsert]_vars

----------------------------------------------------------------------------
(* One PersistentLock used by threads that keep the guards they obtain     *)
(* (util.rs): each call runs to its end before the next starts.            *)

LockKinds == {"read", "write"}

\* The guards a thread holds, in the order it obtained them.
Guards(th) == IF threads[th] = NoCall THEN <<>> ELSE threads[th].guards

\* The sequence without its i-th element.
Without_at(seq, i) ==
    [k \in 1 .. (Len(seq) - 1) |-> IF k < i THEN seq[k] ELSE seq[k + 1]]

\* PersistentLock::read / write called by a thread, which keeps the guard.
\* The guards alive are fewer than usize::MAX - 1: each is a value in
\* memory.
lock_call(th, kind) ==
    /\ threads[th].pc = "idle"
    /\ Len(Guards(th)) < MaxGuards
    /\ lock_counter # USIZE_MAX - 1
    /\ LET r == IF kind = "read" THEN PersistentLock_read(lock_counter)
                ELSE PersistentLock_write(lock_counter)
       IN  /\ lock_counter' = r.counter
           /\ threads' = [threads EXCEPT ![th] =
                  [pc |-> "idle", call |-> kind, out |-> r.out,
                   guards |-> IF r.out = "Ok" THEN Append(Guards(th), kind)
                              ELSE Guards(th)]]
    /\ UNCHANGED <<world_vars, event_vars, test_vars, handle_vars, freed>>

\* The thread drops one of its guards.
guard_drop(th, i) ==
    /\ threads[th].pc = "idle"
    /\ i \in 1 .. Len(Guards(th))
    /\ lock_counter' = LockGuard_drop(lock_counter, Guards(th)[i])
    /\ threads' = [threads EXCEPT ![th] =
           [pc |-> "idle", call |-> "drop", out |-> "Ok",
            guards |-> Without_at(Guards(th), i)]]
    /\ UNCHANGED <<world_vars, event_vars, test_vars, handle_vars, freed>>

NextLock ==
    \/ \E th \in ThreadIds, kind \in LockKinds : lock_call(th, kind)
    \/ \E th \in ThreadIds, i \in 1 .. MaxGuards : guard_drop(th, i)

SpecLock == Init /\ [][NextLock]_vars

----------------------------------------------------------------------------
(* One PersistentLock used by concurrent threads: read() and write() are a *)
(* load of the counter followed by a separate update (util.rs).            *)

\* The load and the comparison of read() / write(): the call returns
\* Err(StorageLocked) at once, or goes on to its update.
lock_load(th, kind) ==
    /\ threads[th].pc = "idle"
    /\ Len(Guards(th)) < MaxGuards
    /\ lock_counter # USIZE_MAX - 1
    /\ LET pass == IF kind = "read" THEN read_ok(lock_counter)
                   ELSE write_ok(lock_counter)
       IN  threads' = [threads EXCEPT ![th] =
               [pc |-> IF pass THEN "checked" ELSE "idle", call |-> kind,
                out |-> IF pass THEN "Ok" ELSE "StorageLocked",
                guards |-> Guards(th)]]
    /\ UNCHANGED <<world_vars, event_vars, test_vars, handle_vars, freed,
                   lock_counter>>

\* The update of read() (fetch_add) / write() (store of usize::MAX), after
\* which the guard is returned.
lock_update(th) ==
    /\ threads[th].pc = "checked"
    /\ lock_counter' = IF threads[th].call = "read" THEN lock_read(lock_counter)
                       ELSE lock_write(lock_counter)
    /\ threads' = [threads EXCEPT ![th].pc = "idle",
                                  ![th].guards = Append(@, threads[th].call)]
    /\ UNCHANGED <<world_vars, event_vars, test_vars, handle_vars, freed>>

NextLockRace ==
    \/ \E th \in ThreadIds, kind \in LockKinds : lock_load(th, kind)
    \/ \E th \in ThreadIds : lock_update(th)
    \/ \E th \in ThreadIds, i \in 1 .. MaxGuards : guard_drop(th, i)

SpecLockRace == Init /\ [][NextLockRace]_vars

----------------------------------------------------------------------------
(* Schedule::run with World::spawn called while the systems run: spawn     *)
(* takes the shared Arc<World> (world.rs), which a system body or a task    *)
(* next to the future of run can hold.                                      *)

\* World::spawn during the systems of a tick.
spawn_during_run(bundle, vals) ==
    /\ phase = "systems"
    /\ alloc_id(indices) < MaxEntities
    /\ LET entity == alloc_id(indices)
           r == insert_into(components, entity, bundle, vals)
       IN  /\ indices' = alloc_bits(indices)
           /\ components' = r.map
           /\ phase' = IF r.out = "panic" THEN "panicked" ELSE phase
    /\ UNCHANGED <<despawn_queue, remove_queue, task, applied, stale>>

NextRunSpawn ==
    \/ run_dispatch /\ UNCHANGED non_world_vars
    \/ \E s \in Systems : task_call(s) /\ UNCHANGED non_world_vars
    \/ \E b \in Bundles : \E vals \in BundleValues(b) :
           spawn_during_run(b, vals) /\ UNCHANGED non_world_vars
    \/ \E s \in Systems, t \in Types, e \in EntityIds :
           task_remove(s, t, e) /\ UNCHANGED non_world_vars
    \/ \E s \in Systems : task_return(s) /\ UNCHANGED non_world_vars
    \/ run_join /\ UNCHANGED non_world_vars
    \/ \E t \in Types, e \in EntityIds :
           tick_removal(t, e) /\ UNCHANGED non_world_vars
    \/ pass_done /\ UNCHANGED non_world_vars

SpecRunSpawn == Init /\ [][NextRunSpawn]_vars

----------------------------------------------------------------------------
(* Entities::alloc called by concurrent threads: the search runs under the *)
(* read lock of the bitset, the set or push under a write lock taken       *)
(* afterwards (entity.rs).                                                  *)

\* The Option the search of alloc() yields: the lowest cleared bit, if any.
find_gap(bits) ==
    LET gaps == {i \in 0 .. (Len(bits) - 1) : ~bits[i + 1]}
    IN  IF gaps # {} THEN <<CHOOSE g \in gaps : \A h \in gaps : g <= h>>
        ELSE <<>>

\* The ids a thread was handed by alloc() and that were not freed since.
Ids(th) == IF "ids" \in DOMAIN threads[th] THEN threads[th].ids ELSE {}

\* Threads between a search that found no cleared bit and their push.
Pushing == {th \in ThreadIds : threads[th].pc = "searched" /\ threads[th].gap = <<>>}

alloc_frame ==
    UNCHANGED <<components, despawn_queue, remove_queue, phase, task, applied,
                stale, event_vars, test_vars, handle_vars, freed, lock_counter>>

\* alloc(), first statement: the search under the read lock.
alloc_search(th) ==
    /\ threads[th].pc = "idle"
    /\ find_gap(indices) # <<>>
           \/ Len(indices) + Cardinality(Pushing) < MaxEntities
    /\ threads' = [threads EXCEPT ![th] =
           [pc |-> "searched", call |-> "alloc", gap |-> find_gap(indices),
            ids |-> Ids(th)]]
    /\ indices' = indices
    /\ alloc_frame

\* alloc(), second statement: set(gap, true) for the gap that was found, or
\* the push of a new bit, under the write lock; the id is returned.
alloc_set(th) ==
    /\ threads[th].pc = "searched"
    /\ LET gap == threads[th].gap
           id == IF gap # <<>> THEN gap[1] ELSE Len(indices)
       IN  /\ indices' = IF gap # <<>> THEN [indices EXCEPT ![id + 1] = TRUE]
                         ELSE Append(indices, TRUE)
           /\ threads' = [threads EXCEPT ![th] =
                  [pc |-> "idle", call |-> "alloc", id |-> id,
                   ids |-> Ids(th) \cup {id}]]
    /\ alloc_frame

\* The entity a thread was handed is despawned: free_many clears its bit.
alloc_free(th, id) ==
    /\ threads[th].pc = "idle"
    /\ id \in Ids(th)
    /\ indices' = free_many(indices, {id})
    /\ threads' = [threads EXCEPT ![th] =
           [pc |-> "idle", call |-> "free", id |-> id, ids |-> Ids(th) \ {id}]]
    /\ alloc_frame

NextAlloc ==
    \/ \E th \in ThreadIds : alloc_search(th)
    \/ \E th \in ThreadIds : alloc_set(th)
    \/ \E th \in ThreadIds, id \in EntityIds : alloc_free(th, id)

SpecAlloc == Init /\ [][NextAlloc]_vars

----------------------------------------------------------------------------
(* The event bus used by concurrent threads: Events::insert and            *)
(* Events::add_reader look the bus up and, when it is missing, create and   *)
(* store one in a later step (event.rs).                                    *)

\* The ids the writes of a thread returned, in order, and the cursor
\* (EventState.last_read) of the reader the thread registered, if any.
Returned(th) ==
    IF "returned" \in DOMAIN threads[th] THEN threads[th].returned ELSE <<>>
Cursor(th) ==
    IF "cursor" \in DOMAIN threads[th] THEN threads[th].cursor ELSE <<>>

\* The bus Events::insert creates, and the one Events::add_reader creates.
EventBus_of_writer == [readers |-> 0, next_id |-> 1, events |-> <<>>]
EventBus_of_reader == [readers |-> 1, next_id |-> 0, events |-> <<>>]

bus_frame ==
    UNCHANGED <<world_vars, last_read, log, delivered, test_vars, handle_vars,
                freed, lock_counter>>

\* Events::insert: the lookup, and with it the whole insert when the bus
\* exists (the map reference is held over EventBus::insert).
write_begin(th, E, event) ==
    /\ threads[th].pc = "idle"
    /\ Events_next_id(events, E) < MaxEvents
    /\ IF E \in DOMAIN events
       THEN LET r == Events_insert(events, E, event)
            IN  /\ events' = r.storage
                /\ threads' = [threads EXCEPT ![th] =
                       [pc |-> "idle", call |-> "write", type |-> E,
                        returned |-> Append(Returned(th), r.id),
                        cursor |-> Cursor(th)]]
       ELSE /\ events' = events
            /\ threads' = [threads EXCEPT ![th] =
                   [pc |-> "creating", call |-> "write", type |-> E,
                    returned |-> Returned(th), cursor |-> Cursor(th)]]
    /\ bus_frame

\* Events::insert, None branch: the new bus is stored, EventId(0) returned.
write_create(th) ==
    /\ threads[th].pc = "creating"
    /\ threads[th].call = "write"
    /\ events' = MapInsert(events, threads[th].type, EventBus_of_writer)
    /\ threads' = [threads EXCEPT ![th].pc = "idle",
                                  ![th].returned = Append(@, 0)]
    /\ bus_frame

\* Schedule::add_system of a system with an EventReader<E>: the state with
\* its cursor, then add_reader up to the end of its Some branch.
subscribe_begin(th, E) ==
    /\ threads[th].pc = "idle"
    /\ Cursor(th) = <<>>
    /\ events' = IF E \in DOMAIN events THEN Events_add_reader(events, E)
                 ELSE events
    /\ threads' = [threads EXCEPT ![th] =
           [pc |-> IF E \in DOMAIN events THEN "idle" ELSE "creating",
            call |-> "subscribe", type |-> E, returned |-> Returned(th),
            cursor |-> <<EventReader_state(events, E)>>]]
    /\ bus_frame

\* Events::add_reader, None branch: the new bus is stored.
subscribe_create(th) ==
    /\ threads[th].pc = "creating"
    /\ threads[th].call = "subscribe"
    /\ events' = MapInsert(events, threads[th].type, EventBus_of_reader)
    /\ threads' = [threads EXCEPT ![th].pc = "idle"]
    /\ bus_frame

\* One EventIterator::next of the thread's registered reader.
reader_next(th, E) ==
    /\ threads[th].pc = "idle"
    /\ Cursor(th) # <<>>
    /\ LET n == EventIterator_next(events, E, Cursor(th)[1])
       IN  /\ events' = n.storage
           /\ threads' = [threads EXCEPT ![th] =
                  [pc |-> "idle", call |-> "read", type |-> E,
                   returned |-> Returned(th), cursor |-> <<n.last_read>>]]
    /\ bus_frame

NextEventsRace ==
    \/ \E th \in ThreadIds, E \in EventTypes, ev \in EventValues :
           write_begin(th, E, ev)
    \/ \E th \in ThreadIds : write_create(th)
    \/ \E th \in ThreadIds, E \in EventTypes : subscribe_begin(th, E)
    \/ \E th \in ThreadIds : subscribe_create(th)
    \/ \E th \in ThreadIds, E \in EventTypes : reader_next(th, E)

SpecEventsRace == Init /\ [][NextEventsRace]_vars

----------------------------------------------------------------------------
(* Deferred removals applied while a Query made with Query::new is alive:   *)
(* the Query keeps its column locks over Schedule::run (query.rs,           *)
(* scheduler.rs).                                                           *)

NextRemove ==
    \/ \E b \in Bundles : \E vals \in BundleValues(b) :
           spawn(b, vals) /\ UNCHANGED non_world_vars
    \/ \E reqs \in QueryTypes : Query_new(Holder, reqs)
    \/ Query_drop(Holder)
    \/ run_begin /\ UNCHANGED non_world_vars
    \/ \E t \in Types, e \in EntityIds :
           Entity_remove(t, e) /\ UNCHANGED non_world_vars
    \/ post_tick_begin /\ UNCHANGED non_world_vars
    \/ \E t \in Types, e \in EntityIds :
           tick_removal(t, e) /\ UNCHANGED non_world_vars
    \/ pass_done /\ UNCHANGED non_world_vars

SpecRemove == Init /\ [][NextRemove]_vars

----------------------------------------------------------------------------
(* Properties of queries, the entity registry and resources *)

\* The elements of a set of numbers in ascending order.
Ascending(S) ==
    [i \in 1 .. Cardinality(S) |->
        CHOOSE x \in S : Cardinality({y \in S : y < x}) = i - 1]

\* The live entities a Query<Q, F> is to yield: those that own (Entity::has)
\* every requested type and satisfy every Without<T> filter.
Matching(with, without) ==
    {e \in Live(indices) :
        /\ with \subseteq Owned(components, e)
        /\ without \cap Owned(components, e) = {}}

\* C21: while the systems run, iterating a query yields one item for every
\* live entity that owns the requested components and passes the filters,
\* nothing else, in ascending id order, and does not stop before the last.
C21_QueryYieldsMatching ==
    phase = "systems" =>
        \A with \in SUBSET Types, without \in SUBSET Types :
            Query_iterate(indices, components, with, without, 0, <<>>)
                = [out |-> "None",
                   items |-> Ascending(Matching(with, without))]

\* C22: when Query::new fails on one of several requests it returns
\* StorageLocked and every column is as it was before the call, the lock
\* counters of the requests taken earlier in the call included.
C22_FailedQueryRestoresLocks ==
    [][\A q \in QueryIds :
          ( /\ indices' = indices
            /\ queries[q].status # "held"
            /\ queries'[q].status = "StorageLocked"
            /\ \A p \in QueryIds \ {q} : queries'[p] = queries[p] )
          => components' = components]_vars

\* C22 witness: a construction over two requests has taken the lock of its
\* first request and then failed on the second.
C22_Witness ==
    \E q \in QueryIds :
        /\ queries[q].status = "StorageLocked"
        /\ Len(queries[q].reqs) = 2
        /\ queries[q].acquired = <<queries[q].reqs[1]>>

\* C23: dropping a query changes the lock counter of no column other than
\* those whose lock its construction took; a column created after the
\* construction keeps its counter.
C23_DropReleasesAcquired ==
    [][\A q \in QueryIds :
          (queries[q].status = "held" /\ queries'[q].status = "none")
          => \A t \in DOMAIN components :
                (\A i \in 1 .. Len(queries[q].acquired) :
                     queries[q].acquired[i][1] # t)
                => components'[t].lock = components[t].lock]_vars

\* C24: the constructions take the column locks in one order of the component
\* types: no two queries took the locks of two types in opposite orders.
C24_CanonicalLockOrder ==
    \A p \in QueryIds, q \in QueryIds :
        (queries[p].status = "held" /\ queries[q].status = "held")
        => \A i, j \in 1 .. Len(queries[p].acquired) :
           \A k, l \in 1 .. Len(queries[q].acquired) :
              ( /\ i < j /\ k < l
                /\ queries[p].acquired[i][1] # queries[p].acquired[j][1] )
              => ~ ( /\ queries[p].acquired[i][1] = queries[q].acquired[l][1]
                     /\ queries[p].acquired[j][1] = queries[q].acquired[k][1] )

\* C25: alloc() returns the lowest id whose bit is cleared and sets it, and
\* grows the bitset by one only when no bit is cleared; hence a freed id is
\* handed out again as soon as no lower id is free, and the live ids are
\* the set bits.  Every step of World::spawn, the only caller of alloc(),
\* changes the bitset in exactly this way.
C25_AllocLowestCleared ==
    [][(phase = "idle" /\ indices' # indices) =>
           \E id \in 0 .. Len(indices) :
               /\ \A lower \in 0 .. (id - 1) : indices[lower + 1]
               /\ id \notin Live(indices)
               /\ Live(indices') = Live(indices) \cup {id}
               /\ Len(indices') = IF id < Len(indices) THEN Len(indices)
                                  ELSE Len(indices) + 1]_vars

\* Id 0, the first id ever handed out, is live and sits behind another
\* entity in a column: it was freed and handed out again by a later alloc().
C25_Witness ==
    /\ phase = "idle"
    /\ 0 \in Live(indices)
    /\ \E t \in DOMAIN components :
           \E k \in 2 .. Len(components[t].reverse_map) :
               components[t].reverse_map[k] = 0

\* What a caller can observe of a column: the owning entities, the value
\* each of them reads, and the number of slots.
Observable(st) ==
    [owners |-> DOMAIN st.map,
     values |-> [e \in DOMAIN st.map |->
                    IF st.map[e] < Len(st.storage)
                    THEN <<st.storage[st.map[e] + 1]>> ELSE <<>>],
     slots |-> Len(st.storage)]

\* C26: inserting a component for an entity that does not own it and then
\* removing it leaves the column in the same observable state as before
\* the insert: the same owners, each with the same value, and the same
\* number of slots.
C26_InsertRemoveRoundTrip ==
    phase = "idle" =>
        \A t \in DOMAIN components : \A e \in EntityIds :
            \A component \in ValuesOf(t) :
                LET st == components[t]
                    inserted == TypedStorage_insert(st, e, component)
                    removed == TypedStorage_remove(inserted.st, e)
                IN  (~has_entity(st, e) /\ inserted.out = "Ok(None)") =>
                        /\ removed.out \in {"Ok(true)", "Ok(false)"}
                        /\ Observable(removed.st) = Observable(st)

\* The entity holds a slot of the column of the type: one of the stored
\* values is its component.
HasSlot(comps, type_id, entity) ==
    /\ type_id \in DOMAIN comps
    /\ \E k \in 1 .. Len(comps[type_id].reverse_map) :
           comps[type_id].reverse_map[k] = entity

\* C27: removing component T from an entity that does not own T, also when
\* no column of T exists, changes nothing: when post-tick applies the
\* removal, the map, the reverse vector and the values of every column are
\* unchanged, and post-tick goes on.
C27_RemoveAbsentIsNoOp ==
    [][\A t \in Types, e \in EntityIds :
           (/\ phase = "tick_removal"
            /\ <<t, e>> \in remove_queue
            /\ <<t, e>> \notin remove_queue'
            /\ ~HasSlot(components, t, e)) =>
               (components' = components /\ phase' = phase)]_vars

\* The components an entity holds: per type in whose column it has a slot,
\* the value stored in that slot.
Holding(comps, entity) ==
    [t \in {u \in DOMAIN comps : HasSlot(comps, u, entity)} |->
        LET k == CHOOSE i \in 1 .. Len(comps[t].reverse_map) :
                     comps[t].reverse_map[i] = entity
        IN  IF k <= Len(comps[t].storage) THEN <<comps[t].storage[k]>>
            ELSE <<>>]

Holders(kind, R) ==
    {h \in HandleIds : /\ handles[h].status = "held"
                       /\ handles[h].kind = kind
                       /\ handles[h].R = R
                       /\ handles[h].locked}

\* C29: a Res or ResMut takes the lock of its resource at most once, on
\* its first dereference, keeps it until it is dropped, and releases it on
\* drop exactly when it had taken it; a handle never dereferenced never
\* changes the lock.  Hence the lock of every resource is held by exactly
\* the handles that were dereferenced and not yet dropped: exclusively by
\* one ResMut, or shared by that many Res.
C29_HandleLocksLazily ==
    /\ \A h \in HandleIds :
           (handles[h].status = "held" /\ handles[h].locked) =>
               handles[h].R \in DOMAIN resources
    /\ \A R \in DOMAIN resources :
           /\ Cardinality(Holders("ResMut", R)) <= 1
           /\ Holders("ResMut", R) # {} => Holders("Res", R) = {}
           /\ resources[R].lock =
                  IF Holders("ResMut", R) # {} THEN USIZE_MAX
                  ELSE Cardinality(Holders("Res", R))

\* C30: dereferencing a Res or ResMut of a resource type that was never
\* inserted fails with NotFound, which ends the accessing system, and
\* leaves the resource store and every lock unchanged.
C30_MissingResourceNotFound ==
    [][\A h \in HandleIds :
           (/\ handles[h].status = "held"
            /\ handles[h].R \notin DOMAIN resources
            /\ handles'[h] # handles[h]
            /\ handles'[h] # NoHandle) =>
               (handles'[h].status = "NotFound" /\ resources' = resources)]_vars

\* A system has failed with NotFound on a type that is still missing while
\* another resource is in the store with its lock held by a handle.
C30_Witness ==
    \E h \in HandleIds :
        /\ handles[h].status = "NotFound"
        /\ handles[h].R \notin DOMAIN resources
        /\ \E R \in DOMAIN resources : resources[R].lock # 0

\* What the claim expects of insert<T>(entity, component) on this store,
\* given whether the entity holds a slot of the column.
InsertAsSpecified(comps, type_id, entity, component) ==
    LET r == Components_insert(comps, type_id, entity, component)
    IN  IF HasSlot(comps, type_id, entity)
        THEN LET st == comps[type_id]
                 k == CHOOSE i \in 1 .. Len(st.reverse_map) :
                          st.reverse_map[i] = entity
             IN  /\ r.out = "Ok(Some)"
                 /\ r.map = [comps EXCEPT ![type_id].storage[k] = component]
        ELSE /\ r.out = "Ok(None)"
             /\ type_id \in DOMAIN r.map
             /\ has_entity(r.map[type_id], entity)
             /\ r.map[type_id].storage =
                    IF type_id \in DOMAIN comps
                    THEN Append(comps[type_id].storage, component)
                    ELSE <<component>>
             /\ \A t \in DOMAIN comps \ {type_id} :
                    t \in DOMAIN r.map /\ r.map[t] = comps[t]

\* C31: insert<T>(id, value) returns the previous value iff the entity
\* already owned T, replacing the value in its slot without changing the
\* number of slots; otherwise it returns nothing, creates the column if it
\* does not exist, appends the value at the tail, and has<T>(id) holds
\* afterwards.  Stated for every store the world can be in between ticks.
C31_InsertReplacesOrAppends ==
    phase = "idle" =>
        \A t \in Types, e \in EntityIds : \A component \in ValuesOf(t) :
            (t \in DOMAIN components => components[t].lock = 0) =>
                InsertAsSpecified(components, t, e, component)

----------------------------------------------------------------------------
(* Properties of inserts, locks and concurrent callers *)

\* The types of a bundle that spawn tries to insert: those up to and
\* including the first whose column is locked.
RECURSIVE Tried(_, _)
Tried(comps, bundle) ==
    IF bundle = <<>> THEN {}
    ELSE IF Head(bundle) \in DOMAIN comps /\ ~write_ok(comps[Head(bundle)].lock)
         THEN {Head(bundle)}
         ELSE {Head(bundle)} \cup Tried(comps, Tail(bundle))

\* C32: insert<T> on a column whose lock is held exclusively by another
\* holder fails with StorageLocked, and the failed insert leaves the map,
\* the reverse vector and the values of the column unchanged.  Every spawn
\* that reaches a column write-locked by a Query ends with that error and
\* leaves the column as it was.
C32_LockedInsertFails ==
    [][\A th \in ThreadIds :
           (threads'[th] # threads[th] /\ threads'[th].pc = "idle") =>
               \A t \in Tried(components, threads'[th].bundle) :
                   (t \in DOMAIN components
                        /\ components[t].lock = USIZE_MAX) =>
                       /\ threads'[th].out = "Err"
                       /\ components'[t] = components[t]]_vars

\* A spawn of a Health bundle has failed with StorageLocked while a Query
\* holds the write lock of the Health column, which stores a value.
C32_Witness ==
    \E th \in ThreadIds :
        /\ threads[th] # NoCall
        /\ threads[th].out = "Err"
        /\ threads[th].bundle = <<"Health">>
        /\ "Health" \in DOMAIN components
        /\ components["Health"].lock = USIZE_MAX
        /\ Len(components["Health"].storage) > 0
        /\ ~has_entity(components["Health"], threads[th].entity)
        /\ \E q \in QueryIds : /\ queries[q].status = "held"
                               /\ queries[q].acquired = <<<<"Health", TRUE>>>>

\* The guards of a kind that are held: <<thread, position>> pairs.
Held(kind) ==
    {g \in ThreadIds \X (1 .. MaxGuards) :
        g[2] <= Len(Guards(g[1])) /\ Guards(g[1])[g[2]] = kind}

\* The counter says who holds the lock: usize::MAX for the one exclusive
\* guard, else the number of shared guards (0 when none is held).
CounterMatchesGuards ==
    /\ Cardinality(Held("write")) <= 1
    /\ Held("write") # {} => Held("read") = {}
    /\ lock_counter = IF Held("write") # {} THEN USIZE_MAX
                      ELSE Cardinality(Held("read"))

\* C33: for one lock used sequentially, a shared acquisition succeeds iff
\* no exclusive guard is held, an exclusive acquisition succeeds iff no
\* guard of any kind is held, a failed acquisition returns StorageLocked
\* and leaves the counter unchanged, and the counter is 0 once all guards
\* are released.
C33_SequentialLock ==
    [][/\ CounterMatchesGuards /\ CounterMatchesGuards'
       /\ \A th \in ThreadIds :
              (threads'[th] # threads[th] /\ threads'[th].call \in LockKinds) =>
                  /\ threads'[th].out = "Ok" <=>
                         IF threads'[th].call = "read"
                         THEN Held("write") = {}
                         ELSE Held("read") \cup Held("write") = {}
                  /\ threads'[th].out # "Ok" =>
                         /\ threads'[th].out = "StorageLocked"
                         /\ lock_counter' = lock_counter
                         /\ Guards(th)' = Guards(th)]_vars

\* Both threads hold shared guards, and the last call of one of them, an
\* exclusive acquisition, was refused.
C33_Witness ==
    /\ \A th \in ThreadIds : Guards(th) # <<>>
    /\ Held("write") = {}
    /\ \E th \in ThreadIds :
           threads[th].call = "write" /\ threads[th].out = "StorageLocked"

\* C34: for one lock used from concurrent threads, under every
\* interleaving of the load and update steps of read() and write(), an
\* exclusive guard never coexists with any other guard, shared or
\* exclusive, and the counter never wraps around: the increment of read()
\* and the decrement of a shared guard's drop stay within 0 .. usize::MAX.
C34_ConcurrentLock ==
    [][/\ Held("write")' # {} =>
              Cardinality(Held("read")' \cup Held("write")') = 1
       /\ \A th \in ThreadIds :
              /\ (threads[th].pc = "checked" /\ threads'[th].pc = "idle"
                      /\ threads[th].call = "read") =>
                     lock_counter' = lock_counter + 1
              /\ (threads'[th] # threads[th] /\ threads'[th].call = "drop"
                      /\ lock_counter' # 0) =>
                     lock_counter' = lock_counter - 1]_vars

\* C35: at the moment post-tick starts, all through post-tick and when run()
\* has returned, no column lock and no resource lock is held: every lock
\* counter is 0, also in ticks in which the task of a system panicked because
\* one of its parameters could not be constructed.
C35_NoLockHeldAtPostTick ==
    phase \in {"idle", "tick_removal", "tick_despawn"} =>
        /\ \A t \in DOMAIN components : components[t].lock = 0
        /\ \A R \in DOMAIN resources : resources[R].lock = 0

\* C36: after World::spawn(bundle) has returned, the new entity owns every
\* component of the bundle, also when a live Query holds the lock of one of
\* the bundle's columns during the call.
C36_SpawnedOwnsBundle ==
    [][\A th \in ThreadIds :
           (threads'[th] # threads[th] /\ threads'[th].call = "spawn") =>
               \A i \in 1 .. Len(threads'[th].bundle) :
                   has_component(components', threads'[th].bundle[i],
                                 threads'[th].entity)]_vars

\* C37: concurrent alloc() calls never return the same id to two callers
\* while that id is live: under every interleaving of the search step and
\* the set step, the ids handed out and not yet freed are pairwise distinct.
C37_ConcurrentAllocDistinct ==
    \A th1, th2 \in ThreadIds : th1 # th2 => Ids(th1) \cap Ids(th2) = {}

\* C38: every write of an event of type E returns an id that is strictly
\* greater than every id an earlier write of E returned and distinct from
\* the id of every concurrent write of E: the ids returned to one thread
\* increase strictly, and no id is returned to two threads.
C38_WriteIdsIncrease ==
    /\ \A th \in ThreadIds : \A i, j \in 1 .. Len(Returned(th)) :
           i < j => Returned(th)[i] < Returned(th)[j]
    /\ \A th1, th2 \in ThreadIds : th1 # th2 =>
           \A i \in 1 .. Len(Returned(th1)), j \in 1 .. Len(Returned(th2)) :
               Returned(th1)[i] # Returned(th2)[j]

\* The number of events a read() of a reader with this cursor yields: the
\* slots found at the cursor and at the ids that follow it without a gap.
RECURSIVE Yielded(_, _, _)
Yielded(storage, E, cursor) ==
    IF E \notin DOMAIN storage \/ cursor \notin DOMAIN storage[E].events THEN 0
    ELSE 1 + Yielded(storage, E, cursor + 1)

\* C39: for every registered reader cursor <= next_id in every reachable
\* state, so that len() = next_id - cursor does not underflow, and in a
\* state with no write in progress len() is the number of events a
\* subsequent read() yields to that reader.
C39_CursorWithinNextId ==
    \A th \in ThreadIds, E \in EventTypes :
        (Cursor(th) # <<>> /\ threads[th].pc = "idle") =>
            /\ Cursor(th)[1] <= Events_next_id(events, E)
            /\ (\A w \in ThreadIds : threads[w].pc # "creating") =>
                   Events_next_id(events, E) - Cursor(th)[1]
                       = Yielded(events, E, Cursor(th)[1])

\* C40: when the column-level remove(entity) fails with StorageLocked
\* because the column lock is held, the column is left unchanged: the
\* id -> slot map, the reverse vector, the values and the lock are what they
\* were before the call, and has(entity) reports what it reported before.
C40_LockedRemoveLeavesColumn ==
    [][\A t \in DOMAIN components, e \in EntityIds :
           (/\ phase = "tick_removal"
            /\ <<t, e>> \in remove_queue \ remove_queue'
            /\ components[t].lock # 0
            /\ TypedStorage_remove(components[t], e).out = "Err") =>
               /\ t \in DOMAIN components'
               /\ components'[t] = components[t]
               /\ has_entity(components'[t], e) = has_entity(components[t], e)]_vars

====
